---- MODULE Spec2Model ----
(***************************************************************************)
(* Model of keponer/cardmarket_card_finder: the seller-item extractor, the *)
(* hidden-field extractor, the AJAX envelope decoder, the pagination       *)
(* driver, the single-source collector and the interactive multi-source    *)
(* aggregation round (cmf/cli.py run_cli and collect_cards.py main).       *)
(*                                                                         *)
(* Representation of Python values:                                        *)
(*  - a str is a sequence of tokens; a token is a TLA+ string standing for  *)
(*    one character or one run of non-whitespace characters; " " and "\n"  *)
(*    are the whitespace tokens.  "" is <<>>.                               *)
(*  - None is the one-token sequence <<"None">>, a token no str contains.  *)
(*  - an HTML document is the sequence of events html.parser.HTMLParser    *)
(*    hands to handle_starttag / handle_endtag / handle_data.              *)
(***************************************************************************)
EXTENDS Integers, Sequences, FiniteSets, TLC

\* ------------------------------------------------------------------ bounds

\* Largest number of page submissions the model lets one pagination run make
\* (the code has no such cap; the bound only keeps the state space finite).
MaxPages == 3

\* Largest number of events lost from, or added to, a document fed event by
\* event.
MaxNoise == 1

\* Largest number of start tags in a document given to
\* extract_hidden_input_values on its own.
MaxInputs == 2

\* Largest number of calls of extract_seller_href_prices made one after the
\* other (the initial page, then the rows of the pages of the run).
MaxCalls == 3

\* ------------------------------------------------------------ Python values

None == <<"None">>

Whitespace == {" ", "\n"}

\* Python truthiness of an Optional[str]: neither None nor "".
Truthy(v) == v # None /\ v # <<>>

RECURSIVE LStrip(_)
LStrip(s) == IF s # <<>> /\ Head(s) \in Whitespace THEN LStrip(Tail(s)) ELSE s

RECURSIVE RStrip(_)
RStrip(s) ==
  IF s # <<>> /\ s[Len(s)] \in Whitespace THEN RStrip(SubSeq(s, 1, Len(s) - 1)) ELSE s

\* str.strip()
Strip(s) == RStrip(LStrip(s))

\* str.split(): the maximal runs of non-whitespace tokens (each class name is
\* one token, so a run is one token).
Split(s) == SelectSeq(s, LAMBDA c : c \notin Whitespace)

\* "".join(parts)
RECURSIVE Join(_)
Join(parts) == IF parts = <<>> THEN <<>> ELSE Head(parts) \o Join(Tail(parts))

\* str.lower() on one token, for the tokens the documents of the model use.
LowerTok(c) ==
  CASE c = "IDPRODUCT" -> "idproduct"
    [] c = "idProduct" -> "idproduct"
    [] c = "isSingle"  -> "issingle"
    [] c = "HIDDEN"    -> "hidden"
    [] c = "ROWS"      -> "rows"
    [] c = "newPage"   -> "newpage"
    [] c = "NEWPAGE"   -> "newpage"
    [] OTHER           -> c

\* str.lower()
Lower(s) == [i \in 1..Len(s) |-> LowerTok(s[i])]

\* x in seq
In(x, seq) == \E i \in 1..Len(seq) : seq[i] = x

\* ------------------------------------------------------------------ events

StartEv(tag, attrs) == [type |-> "start", tag |-> tag, attrs |-> attrs, data |-> <<>>]
EndEv(tag)          == [type |-> "end",   tag |-> tag, attrs |-> <<>>,  data |-> <<>>]
DataEv(data)        == [type |-> "data",  tag |-> "",  attrs |-> <<>>,  data |-> data]

\* ------------------------------------------------------- SellerItemParser

\* SellerItemParser.__init__
ParserInit ==
  [ stack                 |-> <<>>,
    items                 |-> <<>>,
    in_seller_block_depth |-> 0,
    seller_block_nesting  |-> 0,
    current_href          |-> None,
    capture_price_text    |-> FALSE,
    price_span_depth      |-> 0,
    current_price_parts   |-> <<>> ]

\* SellerItemParser._classes: the split value of the first class attribute
\* whose value is truthy, else [].
RECURSIVE Classes(_)
Classes(attrs) ==
  IF attrs = <<>> THEN <<>>
  ELSE IF LowerTok(Head(attrs)[1]) = "class" /\ Truthy(Head(attrs)[2])
       THEN Split(Head(attrs)[2])
       ELSE Classes(Tail(attrs))

\* "for k, v in attrs: if k.lower() == key and v: ...; break": the value of the
\* first attribute named key whose value is truthy, else None.
RECURSIVE FirstTruthyAttr(_, _)
FirstTruthyAttr(attrs, key) ==
  IF attrs = <<>> THEN None
  ELSE IF LowerTok(Head(attrs)[1]) = key /\ Truthy(Head(attrs)[2])
       THEN Head(attrs)[2]
       ELSE FirstTruthyAttr(Tail(attrs), key)

\* Mutant of IsSellerRoot: one of the two classes is enough.
IsSellerRootEither(tag, classes) ==
  tag = "div" /\ (In("col-sellerProductInfo", classes) \/ In("col", classes))

\* The seller-block root test of handle_starttag.
IsSellerRoot(tag, classes) ==
  tag = "div" /\ In("col-sellerProductInfo", classes) /\ In("col", classes)

\* The price-span test of handle_starttag.
IsPriceSpan(classes) == In("color-primary", classes) /\ In("fw-bold", classes)

\* has_seller_root over stack[:-1]
HasSellerRoot(below) ==
  \E i \in 1..Len(below) :
    below[i][1] = "span" /\ In("seller-name", below[i][2]) /\ In("d-flex", below[i][2])

\* Mutant of HasInner: me-1 is not asked for.
HasInnerLoose(below) ==
  \E i \in 1..Len(below) :
    /\ below[i][1] = "span"
    /\ \A c \in {"d-flex", "has-content-centered"} : In(c, below[i][2])

\* has_inner over stack[:-1]
HasInner(below) ==
  \E i \in 1..Len(below) :
    /\ below[i][1] = "span"
    /\ \A c \in {"d-flex", "has-content-centered", "me-1"} : In(c, below[i][2])

\* Mutant of StartBlock: the elements opened inside a block are not counted.
StartBlockFlat(st, tag, classes) ==
  LET s1 == [st EXCEPT !.stack = Append(@, <<tag, classes>>)]
  IN  IF IsSellerRoot(tag, classes)
      THEN [s1 EXCEPT !.in_seller_block_depth = @ + 1,
                      !.seller_block_nesting  = 1,
                      !.current_href          = None,
                      !.capture_price_text    = FALSE,
                      !.price_span_depth      = 0,
                      !.current_price_parts   = <<>>]
      ELSE s1

\* Mutant of StartBlock: a root opened inside an open block is counted like
\* any other element.
StartBlockCounting(st, tag, classes) ==
  LET s1 == [st EXCEPT !.stack = Append(@, <<tag, classes>>)]
  IN  IF s1.in_seller_block_depth > 0
      THEN [s1 EXCEPT !.seller_block_nesting = @ + 1]
      ELSE IF IsSellerRoot(tag, classes)
           THEN [s1 EXCEPT !.in_seller_block_depth = @ + 1,
                           !.seller_block_nesting  = 1,
                           !.current_href          = None,
                           !.capture_price_text    = FALSE,
                           !.price_span_depth      = 0,
                           !.current_price_parts   = <<>>]
           ELSE s1

\* handle_starttag, first part: push the frame and do the block bookkeeping.
StartBlock(st, tag, classes) ==
  LET s1 == [st EXCEPT !.stack = Append(@, <<tag, classes>>)]
  IN  IF IsSellerRoot(tag, classes)
      THEN [s1 EXCEPT !.in_seller_block_depth = @ + 1,
                      !.seller_block_nesting  = 1,
                      !.current_href          = None,
                      !.capture_price_text    = FALSE,
                      !.price_span_depth      = 0,
                      !.current_price_parts   = <<>>]
      ELSE IF s1.in_seller_block_depth > 0
           THEN [s1 EXCEPT !.seller_block_nesting = @ + 1]
           ELSE s1

\* Mutant of StartAnchor: a legacy item that is in the list already is not
\* added again.
StartAnchorDedup(st, tag, attrs) ==
  LET href == FirstTruthyAttr(attrs, "href")
      below == SubSeq(st.stack, 1, Len(st.stack) - 1)
  IN  IF tag # "a" THEN st
      ELSE IF st.in_seller_block_depth > 0
           THEN IF href # None /\ ~Truthy(st.current_href)
                THEN [st EXCEPT !.current_href = href]
                ELSE st
           ELSE IF HasSellerRoot(below) /\ HasInner(below) /\ href # None
                     /\ ~In(<<href, None>>, st.items)
                THEN [st EXCEPT !.items = Append(@, <<href, None>>)]
                ELSE st

\* Mutant of StartAnchor: the anchor of a block is an item at once.
StartAnchorEager(st, tag, attrs) ==
  LET href == FirstTruthyAttr(attrs, "href")
      below == SubSeq(st.stack, 1, Len(st.stack) - 1)
  IN  IF tag # "a" THEN st
      ELSE IF st.in_seller_block_depth > 0
           THEN IF href # None /\ ~Truthy(st.current_href)
                THEN [st EXCEPT !.items = Append(@, <<href, None>>)]
                ELSE st
           ELSE IF HasSellerRoot(below) /\ HasInner(below) /\ href # None
                THEN [st EXCEPT !.items = Append(@, <<href, None>>)]
                ELSE st

\* Mutant of StartAnchor: a later anchor of the block takes the href over.
StartAnchorLastWins(st, tag, attrs) ==
  LET href == FirstTruthyAttr(attrs, "href")
      below == SubSeq(st.stack, 1, Len(st.stack) - 1)
  IN  IF tag # "a" THEN st
      ELSE IF st.in_seller_block_depth > 0
           THEN IF href # None
                THEN [st EXCEPT !.current_href = href]
                ELSE st
           ELSE IF HasSellerRoot(below) /\ HasInner(below) /\ href # None
                THEN [st EXCEPT !.items = Append(@, <<href, None>>)]
                ELSE st

\* Mutant of StartAnchor: the legacy path is taken inside a block as well.
StartAnchorBoth(st, tag, attrs) ==
  LET href == FirstTruthyAttr(attrs, "href")
      below == SubSeq(st.stack, 1, Len(st.stack) - 1)
      s1 == IF st.in_seller_block_depth > 0 /\ href # None /\ ~Truthy(st.current_href)
            THEN [st EXCEPT !.current_href = href]
            ELSE st
  IN  IF tag # "a" THEN st
      ELSE IF HasSellerRoot(below) /\ HasInner(below) /\ href # None
           THEN [s1 EXCEPT !.items = Append(@, <<href, None>>)]
           ELSE s1

\* handle_starttag, second part: an anchor gives its href to the open block, or
\* is a legacy item when no block is open.
StartAnchor(st, tag, attrs) ==
  LET href == FirstTruthyAttr(attrs, "href")
      below == SubSeq(st.stack, 1, Len(st.stack) - 1)
  IN  IF tag # "a" THEN st
      ELSE IF st.in_seller_block_depth > 0
           THEN IF href # None /\ ~Truthy(st.current_href)
                THEN [st EXCEPT !.current_href = href]
                ELSE st
           ELSE IF HasSellerRoot(below) /\ HasInner(below) /\ href # None
                THEN [st EXCEPT !.items = Append(@, <<href, None>>)]
                ELSE st

\* Mutant of StartPrice: while capturing, an element of any tag is counted.
StartPriceAnyTag(st, tag, classes) ==
  IF st.in_seller_block_depth > 0
  THEN IF tag = "span" /\ IsPriceSpan(classes)
       THEN [st EXCEPT !.capture_price_text = TRUE, !.price_span_depth = 1]
       ELSE IF st.capture_price_text
            THEN [st EXCEPT !.price_span_depth = @ + 1]
            ELSE st
  ELSE st

\* handle_starttag, third part: price capture.
StartPrice(st, tag, classes) ==
  IF st.in_seller_block_depth > 0 /\ tag = "span"
  THEN IF IsPriceSpan(classes)
       THEN [st EXCEPT !.capture_price_text = TRUE, !.price_span_depth = 1]
       ELSE IF st.capture_price_text
            THEN [st EXCEPT !.price_span_depth = @ + 1]
            ELSE st
  ELSE st

HandleStarttag(st, tag, attrs) ==
  LET t == LowerTok(tag)
      classes == Classes(attrs)
  IN  StartPrice(StartAnchor(StartBlock(st, t, classes), t, attrs), t, classes)

\* Mutant of EndBlock: a block without price text gives the price "".
EndBlockEmptyPrice(st) ==
  IF st.in_seller_block_depth > 0
  THEN LET s1 == [st EXCEPT !.seller_block_nesting = @ - 1]
           price_text == Strip(Join(s1.current_price_parts))
       IN  IF s1.seller_block_nesting = 0
           THEN [s1 EXCEPT
                   !.items = IF Truthy(s1.current_href)
                             THEN Append(@, <<s1.current_href, price_text>>)
                             ELSE @,
                   !.current_href          = None,
                   !.capture_price_text    = FALSE,
                   !.price_span_depth      = 0,
                   !.current_price_parts   = <<>>,
                   !.in_seller_block_depth = 0]
           ELSE s1
  ELSE st

\* Mutant of EndBlock: the nesting count is decremented whether or not a
\* block is open.
EndBlockUnguarded(st) ==
  LET s1 == [st EXCEPT !.seller_block_nesting = @ - 1]
      price_text == Strip(Join(s1.current_price_parts))
  IN  IF s1.seller_block_nesting = 0
      THEN [s1 EXCEPT
              !.items = IF Truthy(s1.current_href)
                        THEN Append(@, <<s1.current_href,
                                         IF price_text # <<>> THEN price_text ELSE None>>)
                        ELSE @,
              !.current_href          = None,
              !.capture_price_text    = FALSE,
              !.price_span_depth      = 0,
              !.current_price_parts   = <<>>,
              !.in_seller_block_depth = 0]
      ELSE s1

\* Mutant of EndBlock: the price capture goes on after the block is
\* finalized.
EndBlockKeepCapture(st) ==
  IF st.in_seller_block_depth > 0
  THEN LET s1 == [st EXCEPT !.seller_block_nesting = @ - 1]
           price_text == Strip(Join(s1.current_price_parts))
       IN  IF s1.seller_block_nesting = 0
           THEN [s1 EXCEPT
                   !.items = IF Truthy(s1.current_href)
                             THEN Append(@, <<s1.current_href,
                                              IF price_text # <<>> THEN price_text ELSE None>>)
                             ELSE @,
                   !.current_href          = None,
                   !.current_price_parts   = <<>>,
                   !.in_seller_block_depth = 0]
           ELSE s1
  ELSE st

\* Mutant of EndBlock: the href and the price parts are left as they are when
\* the block is finalized.
EndBlockNoReset(st) ==
  IF st.in_seller_block_depth > 0
  THEN LET s1 == [st EXCEPT !.seller_block_nesting = @ - 1]
           price_text == Strip(Join(s1.current_price_parts))
       IN  IF s1.seller_block_nesting = 0
           THEN [s1 EXCEPT
                   !.items = IF Truthy(s1.current_href)
                             THEN Append(@, <<s1.current_href,
                                              IF price_text # <<>> THEN price_text ELSE None>>)
                             ELSE @,
                   !.capture_price_text    = FALSE,
                   !.price_span_depth      = 0,
                   !.in_seller_block_depth = 0]
           ELSE s1
  ELSE st

\* handle_endtag, first part: the block's nesting count and its finalization.
EndBlock(st) ==
  IF st.in_seller_block_depth > 0
  THEN LET s1 == [st EXCEPT !.seller_block_nesting = @ - 1]
           price_text == Strip(Join(s1.current_price_parts))
       IN  IF s1.seller_block_nesting = 0
           THEN [s1 EXCEPT
                   !.items = IF Truthy(s1.current_href)
                             THEN Append(@, <<s1.current_href,
                                              IF price_text # <<>> THEN price_text ELSE None>>)
                             ELSE @,
                   !.current_href          = None,
                   !.capture_price_text    = FALSE,
                   !.price_span_depth      = 0,
                   !.current_price_parts   = <<>>,
                   !.in_seller_block_depth = 0]
           ELSE s1
  ELSE st

\* The index of the topmost frame of the stack whose tag is tag, 0 when none.
TopmostFrame(stack, tag) ==
  LET idx == {i \in 1..Len(stack) : stack[i][1] = tag}
  IN  IF idx = {} THEN 0 ELSE CHOOSE i \in idx : \A j \in idx : j <= i

\* Mutant of EndStack: only the matching frame is removed, the frames above
\* it stay.
EndStackOneFrame(st, tag) ==
  LET i == TopmostFrame(st.stack, tag)
      d == IF st.price_span_depth > 0 THEN st.price_span_depth - 1 ELSE st.price_span_depth
      s1 == IF tag = "span" /\ st.capture_price_text
            THEN [st EXCEPT !.price_span_depth = d,
                            !.capture_price_text = (d # 0)]
            ELSE st
  IN  IF i = 0 THEN st
      ELSE [s1 EXCEPT !.stack = SubSeq(@, 1, i - 1) \o SubSeq(@, i + 1, Len(@))]

\* handle_endtag, second part: unwind the stack to the topmost matching frame
\* and count a closing span against the price capture.
EndStack(st, tag) ==
  LET i == TopmostFrame(st.stack, tag)
      d == IF st.price_span_depth > 0 THEN st.price_span_depth - 1 ELSE st.price_span_depth
      s1 == IF tag = "span" /\ st.capture_price_text
            THEN [st EXCEPT !.price_span_depth = d,
                            !.capture_price_text = (d # 0)]
            ELSE st
  IN  IF i = 0 THEN st
      ELSE [s1 EXCEPT !.stack = SubSeq(@, 1, i - 1)]

HandleEndtag(st, tag) == EndStack(EndBlock(st), LowerTok(tag))

\* Mutant of HandleData: the text of the whole block is captured.
HandleDataInBlock(st, data) ==
  IF st.in_seller_block_depth > 0
  THEN [st EXCEPT !.current_price_parts = Append(@, data)]
  ELSE st

\* handle_data
HandleData(st, data) ==
  IF st.capture_price_text /\ st.in_seller_block_depth > 0
  THEN [st EXCEPT !.current_price_parts = Append(@, data)]
  ELSE st

\* One event of HTMLParser.feed.
HandleEvent(st, ev) ==
  CASE ev.type = "start" -> HandleStarttag(st, ev.tag, ev.attrs)
    [] ev.type = "end"   -> HandleEndtag(st, ev.tag)
    [] OTHER             -> HandleData(st, ev.data)

\* HTMLParser.feed: the events in document order.  The handler of an event
\* has run (s has its value) before the next event is looked at.
RECURSIVE Feed(_, _)
Feed(st, events) ==
  IF events = <<>> THEN st
  ELSE LET s == HandleEvent(st, Head(events))
       IN  IF s = s THEN Feed(s, Tail(events)) ELSE s

\* extract_seller_href_prices: a fresh parser, then the price of each item
\* stripped when it is a str.
Normalised(its) ==
  [i \in 1..Len(its) |->
     <<its[i][1], IF its[i][2] # None THEN Strip(its[i][2]) ELSE None>>]

ExtractItems(html_text) == Normalised(Feed(ParserInit, html_text).items)

\* ------------------------------------------------------ HiddenInputParser

\* attrs_dict.get(key) for attrs_dict = {k.lower(): v for k, v in attrs}: the
\* value of the last attribute named key, None when there is none.
AttrGet(attrs, key) ==
  LET idx == {i \in 1..Len(attrs) : LowerTok(attrs[i][1]) = key}
  IN  IF idx = {} THEN None ELSE attrs[CHOOSE i \in idx : \A j \in idx : j <= i][2]

\* HiddenInputParser.handle_starttag; found is found_values, a function from
\* the names as written in the markup to their values.
HiddenStarttag(found, target_names, tag, attrs) ==
  LET type_attr  == AttrGet(attrs, "type")
      input_type == Lower(IF Truthy(type_attr) THEN type_attr ELSE <<>>)
      name       == AttrGet(attrs, "name")
      value_attr == AttrGet(attrs, "value")
      value      == IF Truthy(value_attr) THEN value_attr ELSE <<>>
  IN  IF LowerTok(tag) # "input" THEN found
      ELSE IF input_type # <<>> /\ input_type # <<"hidden">> THEN found
      ELSE IF ~Truthy(name) THEN found
      ELSE IF Lower(name) \notin target_names THEN found
      ELSE (name :> value) @@ found

\* HiddenInputParser.feed: only start tags are handled.
RECURSIVE HiddenFeed(_, _, _)
HiddenFeed(found, target_names, events) ==
  IF events = <<>> THEN found
  ELSE LET f == IF Head(events).type = "start"
                THEN HiddenStarttag(found, target_names, Head(events).tag,
                                    Head(events).attrs)
                ELSE found
       IN  IF f = f THEN HiddenFeed(f, target_names, Tail(events)) ELSE f

\* extract_hidden_input_values: raises ValueError naming the missing names, or
\* returns the mapping over required_names.
extract_hidden_input_values(html_text, required_names) ==
  LET targets == {Lower(required_names[i]) : i \in 1..Len(required_names)}
      found   == HiddenFeed([n \in {} |-> <<>>], targets, html_text)
      get(n)  == IF n \in DOMAIN found THEN found[n] ELSE None
      missing == SelectSeq(required_names, LAMBDA n : get(n) = None)
  IN  [ raises  |-> missing # <<>>,
        missing |-> missing,
        values  |-> [n \in {required_names[i] : i \in 1..Len(required_names)} |->
                       IF Truthy(get(n)) THEN get(n) ELSE <<>>] ]

\* ------------------------------------------------------- documents (inputs)

ClassAttr(tokens) == <<"class", tokens>>

\* <div class="col-sellerProductInfo col"><a href=href></a>
\*   <span class="color-primary fw-bold">p1<span>p2</span></span></div>
PricedBlock(href, p1, p2) ==
  << StartEv("div", <<ClassAttr(<<"col-sellerProductInfo", " ", "col">>)>>),
     StartEv("a", <<<<"href", href>>>>), EndEv("a"),
     StartEv("span", <<ClassAttr(<<"fw-bold", " ", "color-primary">>)>>),
     DataEv(p1), StartEv("span", <<>>), DataEv(p2), EndEv("span"),
     EndEv("span"), EndEv("div") >>

\* A seller block with an anchor and no price span.
UnpricedBlock(href) ==
  << StartEv("div", <<ClassAttr(<<"col", " ", "col-sellerProductInfo">>)>>),
     StartEv("a", <<<<"href", href>>>>), DataEv(<<"name">>), EndEv("a"),
     EndEv("div") >>

\* The legacy structure: span.seller-name.d-flex > span.d-flex.has-content-
\* centered.me-1 > a[href].
LegacyAnchor(href) ==
  << StartEv("span", <<ClassAttr(<<"seller-name", " ", "d-flex">>)>>),
     StartEv("span", <<ClassAttr(<<"d-flex", " ", "has-content-centered", " ", "me-1">>)>>),
     StartEv("a", <<<<"href", href>>>>), EndEv("a"),
     EndEv("span"), EndEv("span") >>

HiddenInput(name, value) ==
  << StartEv("input", << <<"type", <<"hidden">>>>, <<"name", name>>, <<"value", value>> >>) >>

\* Rows fragments the server can send.
RowsA == PricedBlock(<<"x">>, <<" ", "E">>, <<"12.50", "\n">>) \o UnpricedBlock(<<"y">>)
RowsB == PricedBlock(<<"x">>, <<"9.00">>, <<>>)
RowsZ == LegacyAnchor(<<"z">>)

\* Product pages the server can send.
PageFull ==
  HiddenInput(<<"__cmtkn">>, <<"tok1">>) \o HiddenInput(<<"idProduct">>, <<"42">>)
    \o HiddenInput(<<"isSingle">>, <<"1">>) \o UnpricedBlock(<<"y">>)
    \o PricedBlock(<<"x">>, <<"5.00">>, <<>>)
PageBare ==
  HiddenInput(<<"__cmtkn">>, <<"tok2">>) \o HiddenInput(<<"idProduct">>, <<"43">>)
    \o HiddenInput(<<"isSingle">>, <<>>)
PageNoSingle ==
  HiddenInput(<<"__cmtkn">>, <<"tok3">>) \o HiddenInput(<<"idProduct">>, <<"44">>)
    \o UnpricedBlock(<<"x">>)

\* All three fields, the listing identifier's name in capitals.
PageUpper ==
  HiddenInput(<<"__cmtkn">>, <<"tok4">>) \o HiddenInput(<<"IDPRODUCT">>, <<"45">>)
    \o HiddenInput(<<"isSingle">>, <<"1">>) \o UnpricedBlock(<<"y">>)

Pages == {PageFull, PageBare, PageNoSingle, PageUpper}

\* Every document the server of the model can send.
Documents == Pages \cup {RowsA, RowsB, RowsZ, <<>>}

\* extract_seller_href_prices, tabulated over the documents of the model (TLC
\* evaluates the parser once per application of the table).
SellerItems == [html_text \in Documents |-> ExtractItems(html_text)]

extract_seller_href_prices(html_text) == SellerItems[html_text]

\* ------------------------------------------- documents fed event by event

RootClasses  == <<"col-sellerProductInfo", " ", "col">>
PriceClasses == <<"color-primary", " ", "fw-bold">>
OuterClasses == <<"seller-name", " ", "d-flex">>
InnerClasses == <<"d-flex", " ", "has-content-centered", " ", "me-1">>

\* <a attrs>name</a>
Anchor(attrs) == << StartEv("a", attrs), DataEv(<<"name">>), EndEv("a") >>

Href(v) == << <<"href", v>> >>

\* <div class=cls> anchors inner </div>
BlockDoc(cls, anchors, inner) ==
  << StartEv("div", <<ClassAttr(cls)>>) >> \o anchors \o inner \o << EndEv("div") >>

\* <span class="color-primary fw-bold"><inl>f1</inl><inl>f2</inl></span>
SplitPriceSpan(inl, f1, f2) ==
  << StartEv("span", <<ClassAttr(PriceClasses)>>),
     StartEv(inl, <<>>), DataEv(f1), EndEv(inl),
     StartEv(inl, <<>>), DataEv(f2), EndEv(inl),
     EndEv("span") >>

\* A seller block with text before the anchor, one anchor, a price span whose
\* text is split over two inline elements, and text after the price span.
SplitPriceBlock(href, inl, f1, f2) ==
  BlockDoc(RootClasses,
           << DataEv(<<"before">>) >> \o Anchor(Href(href)),
           SplitPriceSpan(inl, f1, f2) \o << DataEv(<<"after">>) >>)

\* <span class="color-primary fw-bold">t</span>
PlainPriceSpan(t) ==
  << StartEv("span", <<ClassAttr(PriceClasses)>>), DataEv(t), EndEv("span") >>

\* The anchors a block of the model can hold: none, one without href, one
\* whose href is empty, one with href y.
BlockAnchors == { <<>>, Anchor(<<>>), Anchor(Href(<<>>)), Anchor(Href(<<"y">>)) }

\* The price markup a block of the model can hold: none, a price span with
\* only whitespace in it, a price span with a price.
BlockPrices == { <<>>, PlainPriceSpan(<<" ", "\n">>), PlainPriceSpan(<<"5.00">>) }

\* The legacy structure with the two marker spans given by their classes, in
\* either order, next to each other or with a div between them.
LegacyDoc(outer, inner, apart, attrs) ==
  << StartEv("span", <<ClassAttr(outer)>>) >>
    \o (IF apart THEN << StartEv("div", <<>>) >> ELSE <<>>)
    \o << StartEv("span", <<ClassAttr(inner)>>),
          StartEv("a", attrs), EndEv("a"),
          EndEv("span") >>
    \o (IF apart THEN << EndEv("div") >> ELSE <<>>)
    \o << EndEv("span") >>

\* The classes the two spans around a legacy anchor can have: the markers, in
\* either order, or a marker with one class missing.
LegacySpans ==
  { <<OuterClasses, InnerClasses>>, <<InnerClasses, OuterClasses>>,
    << <<"seller-name">>, InnerClasses >>,
    << OuterClasses, <<"d-flex", " ", "has-content-centered">> >>,
    << OuterClasses, <<"d-flex", " ", "me-1">> >> }

\* A seller block, with an anchor, inside the two marker spans, followed by
\* an anchor outside the block and still inside the spans.
BlockInLegacy ==
  << StartEv("span", <<ClassAttr(OuterClasses)>>),
     StartEv("span", <<ClassAttr(InnerClasses)>>) >>
    \o BlockDoc(RootClasses, Anchor(Href(<<"x">>)), PlainPriceSpan(<<"5.00">>))
    \o Anchor(Href(<<"z">>))
    \o << EndEv("span"), EndEv("span") >>

\* Closes in the wrong order: the anchor and the price span overlap.
Misnested ==
  << StartEv("div", <<ClassAttr(RootClasses)>>),
     StartEv("a", Href(<<"x">>)),
     StartEv("span", <<ClassAttr(PriceClasses)>>), DataEv(<<"5.00">>),
     EndEv("a"), EndEv("span"), EndEv("div") >>

\* Seller blocks with two anchors: the first without href, with an href
\* without value, with an empty href or with the href x; the second with the
\* href w.
TwoAnchorBlocks ==
  { BlockDoc(RootClasses, Anchor(a) \o Anchor(Href(<<"w">>)), PlainPriceSpan(<<"5.00">>)) :
      a \in { <<>>, << <<"href", None>> >>, Href(<<>>), Href(<<"x">>) } }

\* Two seller blocks one after the other: the first with the href x and the
\* price 5.00, the second with anchors a and price markup p.
TwoBlocks(a, p) ==
  BlockDoc(RootClasses, Anchor(Href(<<"x">>)), PlainPriceSpan(<<"5.00">>))
    \o BlockDoc(RootClasses, a, p)

\* The second blocks of the model: empty, an href without a price, a price
\* without an href, an href and a price.
SecondBlocks ==
  { << <<>>, <<>> >>, << Anchor(Href(<<"y">>)), <<>> >>,
    << <<>>, PlainPriceSpan(<<"7.00">>) >>,
    << Anchor(Href(<<"y">>)), PlainPriceSpan(<<"7.00">>) >> }

\* A seller block with the href z and no price, then the legacy structure
\* with an anchor of the same href.
SameItemTwice ==
  BlockDoc(RootClasses, Anchor(Href(<<"z">>)), <<>>)
    \o LegacyDoc(OuterClasses, InnerClasses, FALSE, Href(<<"z">>))

\* The documents fed event by event.
FeedDocs ==
  { SplitPriceBlock(<<"x">>, inl, f1, f2) :
      inl \in {"span", "b"}, f1 \in {<<"E">>, <<" ", "E">>},
      f2 \in {<<"12.50">>, <<"12.50", "\n">>} }
  \cup { PricedBlock(<<"x">>, <<" ", "E">>, <<"12.50", "\n">>) }
  \cup { BlockDoc(RootClasses, a, p) : a \in BlockAnchors, p \in BlockPrices }
  \cup { BlockDoc(cls, Anchor(Href(<<"x">>)), PlainPriceSpan(<<"5.00">>)) :
           cls \in {<<"col">>, <<"col-sellerProductInfo">>} }
  \cup { LegacyDoc(sp[1], sp[2], apart, attrs) :
           sp \in LegacySpans, apart \in BOOLEAN, attrs \in {Href(<<"z">>), Href(<<>>)} }
  \cup { BlockInLegacy, Misnested }
  \cup TwoAnchorBlocks
  \cup { TwoBlocks(b[1], b[2]) : b \in SecondBlocks }
  \cup { SameItemTwice }

\* The events that can turn up on their own in a document: closes without an
\* open, opens without a close, text.
StrayEvents ==
  { EndEv("div"), EndEv("span"), EndEv("a"),
    StartEv("div", <<ClassAttr(RootClasses)>>), StartEv("span", <<>>),
    StartEv("span", <<ClassAttr(PriceClasses)>>),
    StartEv("a", Href(<<"w">>)), DataEv(<<"t">>) }

\* ------------------------------- documents for extract_hidden_input_values

\* Marks an attribute the tag does not have.
Absent == <<"(absent)">>

AttrIf(k, v) == IF v = Absent THEN <<>> ELSE << <<k, v>> >>

\* <tag type=.. name=.. value=..>, each attribute there or not.
TagWith(tag, type, name, value) ==
  StartEv(tag, AttrIf("type", type) \o AttrIf("name", name) \o AttrIf("value", value))

\* The start tags of the documents: inputs without type, of type hidden in
\* either case, of type text and of empty type, named in the casing asked
\* for or in another, with a value, an empty value or none; and a tag that
\* is not an input.
HiddenTags ==
  { TagWith("input", type, name, value) :
      type  \in {Absent, <<"hidden">>, <<"HIDDEN">>, <<"text">>, <<>>},
      name  \in {<<"idProduct">>, <<"IDPRODUCT">>, <<"__cmtkn">>, Absent},
      value \in {Absent, <<>>, <<"1">>, <<"2">>} }
  \cup { TagWith("div", Absent, <<"idProduct">>, <<"3">>) }

HiddenDocs == UNION { [1..n -> HiddenTags] : n \in 0..MaxInputs }

\* The names asked for.
RequiredLists == { << <<"idProduct">> >>, << <<"__cmtkn">>, <<"idProduct">> >> }

\* ------------------------------------------------------- envelope decoder

\* The characters of a payload that are not of the base64 alphabet, which
\* b64decode(validate=False) discards.
NonAlphabet == Whitespace \cup {"!"}

\* base64.b64decode(rows_b64, validate=False).decode("utf-8", "replace") on the
\* payloads the server of the model sends: the characters outside the
\* alphabet are discarded, and what is left is decoded; a payload cut short
\* ("b64(Rows") raises binascii.Error (incorrect padding).
B64Decode(rows_b64) ==
  LET data == SelectSeq(rows_b64, LAMBDA c : c \notin NonAlphabet)
  IN  CASE data = <<"b64(RowsA)">> -> [raises |-> FALSE, html |-> RowsA]
        [] data = <<"b64(RowsB)">> -> [raises |-> FALSE, html |-> RowsB]
        [] data = <<"b64(RowsZ)">> -> [raises |-> FALSE, html |-> RowsZ]
        [] data = <<>>             -> [raises |-> FALSE, html |-> <<>>]
        [] OTHER                   -> [raises |-> TRUE,  html |-> <<>>]

\* A response text, as the two searches of extract_tag see it: the body of
\* the first <rows> element and of the first <newPage> element, None when the
\* element is absent.
Envelope(rows, newPage) == [rows |-> rows, newPage |-> newPage]

\* A response text as markup: opening tags "<inner>", closing tags
\* "</inner>" and the text between them.
OpenTok(inner)  == [kind |-> "open",  inner |-> inner]
CloseTok(inner) == [kind |-> "close", inner |-> inner]
TextTok(body)   == [kind |-> "text",  inner |-> body]

\* The characters of a piece of markup.
RenderTok(tok) ==
  CASE tok.kind = "open"  -> <<"<">> \o tok.inner \o <<">">>
    [] tok.kind = "close" -> <<"<", "/">> \o tok.inner \o <<">">>
    [] OTHER              -> tok.inner

RECURSIVE Render(_)
Render(toks) == IF toks = <<>> THEN <<>> ELSE RenderTok(Head(toks)) \o Render(Tail(toks))

\* s starts with prefix.
StartsWith(s, prefix) ==
  Len(s) >= Len(prefix) /\ SubSeq(s, 1, Len(prefix)) = prefix

\* extract_tag: re.search of <\s*tag[^>]*>([\s\S]*?)<\s*/\s*tag\s*>, case
\* ignored: the first opening tag whose inside begins with tag, up to the
\* first closing tag of that name after it; group 1, or None without a match.
extract_tag(tag, markup) ==
  LET opens  == {i \in 1..Len(markup) :
                   /\ markup[i].kind = "open"
                   /\ StartsWith(Lower(LStrip(markup[i].inner)), Lower(tag))}
      closes == {j \in 1..Len(markup) :
                   /\ markup[j].kind = "close"
                   /\ Lower(Strip(markup[j].inner)) = Lower(tag)}
      first  == CHOOSE i \in opens : \A k \in opens : i <= k
      after  == {j \in closes : j > first}
      last   == CHOOSE j \in after : \A k \in after : j <= k
  IN  IF opens = {} THEN None
      ELSE IF after = {} THEN None
      ELSE Render(SubSeq(markup, first + 1, last - 1))

\* Mutant of parse_ajax_response: the error names both elements whichever is
\* missing.
parse_ajax_response_both(text) ==
  LET rows_b64 == text.rows
      new_page == text.newPage
      decoded  == B64Decode(rows_b64)
  IN  IF rows_b64 = None \/ new_page = None
      THEN [raises |-> TRUE, exc |-> <<"Missing tags">> \o <<"rows", "newPage">>,
            rows_html |-> <<>>, new_page |-> <<>>]
      ELSE IF decoded.raises
      THEN [raises |-> TRUE, exc |-> <<"Incorrect padding">>,
            rows_html |-> <<>>, new_page |-> <<>>]
      ELSE [raises |-> FALSE, exc |-> <<>>,
            rows_html |-> decoded.html, new_page |-> Strip(new_page)]

\* parse_ajax_response, from the two results of extract_tag on.
parse_ajax_response(text) ==
  LET rows_b64 == text.rows
      new_page == text.newPage
      missing  == (IF rows_b64 = None THEN <<"rows">> ELSE <<>>)
                    \o (IF new_page = None THEN <<"newPage">> ELSE <<>>)
      decoded  == B64Decode(rows_b64)
  IN  IF rows_b64 = None \/ new_page = None
      THEN [raises |-> TRUE, exc |-> <<"Missing tags">> \o missing,
            rows_html |-> <<>>, new_page |-> <<>>]
      ELSE IF decoded.raises
      THEN [raises |-> TRUE, exc |-> <<"Incorrect padding">>,
            rows_html |-> <<>>, new_page |-> <<>>]
      ELSE [raises |-> FALSE, exc |-> <<>>,
            rows_html |-> decoded.html, new_page |-> Strip(new_page)]

\* parse_ajax_response on a response text given as markup.
ParseAjaxMarkup(markup) ==
  parse_ajax_response(Envelope(extract_tag(<<"rows">>, markup),
                               extract_tag(<<"newPage">>, markup)))

\* ------------------------------------------- texts for parse_ajax_response

\* The rows payloads: whole encodings, one with characters outside the
\* alphabet in it, one cut short.
Payloads ==
  { <<"b64(RowsA)">>, <<"b64(RowsZ)">>, <<"!", "b64(RowsA)", "\n">>, <<"b64(Rows">> }

\* The rows part of a text: nothing, an element (its tags in either case,
\* with an attribute, with or without a payload), an element never closed,
\* or an element of another name that begins with rows.
RowsParts ==
  { <<>> }
  \cup { << OpenTok(o), TextTok(p), CloseTok(c) >> :
           o \in { <<"rows">>, <<"ROWS", " ", "a=1">> }, p \in Payloads,
           c \in { <<"rows">>, <<"ROWS", " ">> } }
  \cup { << OpenTok(<<"rows">>), CloseTok(<<"rows">>) >>,
         << OpenTok(<<"rows">>), TextTok(<<"b64(RowsA)">>) >>,
         << CloseTok(<<"rows">>), OpenTok(<<"rows">>), TextTok(<<"b64(RowsA)">>) >>,
         << OpenTok(<<"rows", "et">>), TextTok(<<"b64(RowsA)">>), CloseTok(<<"rows">>) >> }

\* The newPage part of a text, likewise.
PageParts ==
  { <<>> }
  \cup { << OpenTok(o), TextTok(c), CloseTok(<<"newPage">>) >> :
           o \in { <<"newPage">>, <<"NEWPAGE">> },
           c \in { <<"2">>, <<" ", "3", " ">>, <<"-", "1">>, <<"\n", "-", "1", " ">> } }
  \cup { << OpenTok(<<"newPage">>), CloseTok(<<"newPage">>) >>,
         << OpenTok(<<"newPage">>), TextTok(<<"2">>) >> }

\* The response texts: the two parts in either order inside <ajaxResponse>.
AjaxTexts ==
  { << OpenTok(<<"ajaxResponse">>) >> \o a \o b \o << CloseTok(<<"ajaxResponse">>) >> :
      a \in RowsParts, b \in PageParts }
  \cup { b \o a : a \in RowsParts, b \in PageParts }

\* ------------------------------------------------------------ environment

\* What http_get can do: raise (urllib error) or return a product page.
GetResponses ==
  {[raises |-> TRUE, html |-> <<>>]} \cup {[raises |-> FALSE, html |-> p] : p \in Pages}

Sentinel == <<"-", "1">>

PostOk(rows, newPage) == [raises |-> FALSE, text |-> Envelope(rows, newPage)]

\* What http_post_multipart can do on one submission: raise, or return a
\* response text.
ContinuingResponses ==
  { PostOk(<<"b64(RowsA)">>, <<"2">>),
    PostOk(<<"b64(RowsB)">>, <<"3", " ">>) }

SentinelResponses ==
  { PostOk(<<"b64(RowsA)">>, <<"-", "1">>),
    PostOk(<<"b64(RowsZ)">>, <<" ", "-", "1", "\n">>) }

FailingResponses ==
  { [raises |-> TRUE, text |-> Envelope(None, None)],
    PostOk(<<"b64(RowsB)">>, None),
    PostOk(<<"b64(Rows">>, <<"-", "1">>) }

PostResponses == ContinuingResponses \cup SentinelResponses \cup FailingResponses

\* The server's behaviour during one pagination run: the response to the k-th
\* submission is the k-th element (the last element again once the script is
\* used up).  Only the last response of a script ends a run; a script of
\* MaxPages continuing responses never ends it.
Scripts ==
  UNION { { s \in [1..n -> PostResponses] :
              /\ \A k \in 1..(n - 1) : s[k] \in ContinuingResponses
              /\ n < MaxPages => s[n] \notin ContinuingResponses }
          : n \in 1..MaxPages }

ServerResponse(s, k) == s[IF k <= Len(s) THEN k ELSE Len(s)]

\* What the user can type at the URL prompt, already split at the commas and
\* each piece stripped: nothing, only blank pieces, or one or two URLs.
RawInputs ==
  { <<>>, <<"", "">>, <<"u1">>, <<"u2", "", "u1">> }

RequiredNames == << <<"__cmtkn">>, <<"idProduct">>, <<"isSingle">> >>

\* ------------------------------------------------------------- aggregator

\* set(h for (h, _p) in lst)
HrefSet(lst) == {lst[i][1] : i \in 1..Len(lst)}

\* Mutant of CommonHrefs: the hrefs of the first source, whatever the others
\* hold.
CommonHrefsFirst(lists) == HrefSet(lists[1])

\* set.intersection(*href_sets) if len(href_sets) > 1 else href_sets[0]
CommonHrefs(lists) ==
  IF Len(lists) > 1
  THEN {h \in HrefSet(lists[1]) : \A i \in 1..Len(lists) : h \in HrefSet(lists[i])}
  ELSE HrefSet(lists[1])

\* Mutant of PricesIn: a price already listed for the source is not listed
\* again.
RECURSIVE PricesInDedup(_, _)
PricesInDedup(lst, href) ==
  IF lst = <<>> THEN <<>>
  ELSE LET front == PricesInDedup(SubSeq(lst, 1, Len(lst) - 1), href)
           last  == lst[Len(lst)]
       IN  IF last[1] = href /\ Truthy(last[2]) /\ ~In(last[2], front)
           THEN Append(front, last[2])
           ELSE front

\* The prices of the items of one source whose href is href and whose price
\* is truthy, in the source's order.
RECURSIVE PricesIn(_, _)
PricesIn(lst, href) ==
  IF lst = <<>> THEN <<>>
  ELSE (IF Head(lst)[1] = href /\ Truthy(Head(lst)[2]) THEN <<Head(lst)[2]>> ELSE <<>>)
         \o PricesIn(Tail(lst), href)

\* The inner loops of the report: for lst in per_url_lists: for (h, p) in lst.
RECURSIVE PricesFor(_, _)
PricesFor(lists, href) ==
  IF lists = <<>> THEN <<>>
  ELSE PricesIn(Head(lists), href) \o PricesFor(Tail(lists), href)

\* Python's order of str, on the hrefs of the model.
TokRank(c) == CASE c = "x" -> 1 [] c = "y" -> 2 [] c = "z" -> 3 [] OTHER -> 0

RECURSIVE StrLess(_, _)
StrLess(a, b) ==
  IF b = <<>> THEN FALSE
  ELSE IF a = <<>> THEN TRUE
  ELSE IF TokRank(Head(a)) # TokRank(Head(b)) THEN TokRank(Head(a)) < TokRank(Head(b))
  ELSE StrLess(Tail(a), Tail(b))

\* sorted(common_hrefs)
RECURSIVE Sorted(_)
Sorted(S) ==
  IF S = {} THEN <<>>
  ELSE LET m == CHOOSE h \in S : \A g \in S \ {h} : StrLess(h, g)
       IN  <<m>> \o Sorted(S \ {m})

\* The lines "sellerHref={href} | prices=[...]" of one round, in print order.
ReportLines(lists) ==
  LET hs == Sorted(CommonHrefs(lists))
  IN  [i \in 1..Len(hs) |-> <<hs[i], PricesFor(lists, hs[i])>>]

\* -------------------------------------------------------------------- state

VARIABLES
  entry,          \* the entry point running: "run_cli" (cmf/cli.py) or "main" (collect_cards.py)
  pc,             \* the statement the program is at
  url_list,       \* run_cli / main: the URLs of the round
  u,              \* index in url_list of the URL of the "for u in url_list" loop
  per_url_lists,  \* run_cli: per_url_lists (main: all_lists)
  html,           \* collect_seller_items_for_url: html
  values,         \* collect_seller_items_for_url: values
  items,          \* collect_seller_items_for_url: items
  page,           \* paginate_load_more_collect: page
  text,           \* paginate_load_more_collect: text
  rows_html,      \* paginate_load_more_collect: rows_html
  new_page,       \* paginate_load_more_collect: new_page
  collected,      \* paginate_load_more_collect: collected
  stdout,         \* the report lines printed in the current round
  stderr,         \* the error message printed last in the current round, None when none
  rc,             \* the exit status once the program has returned, -1 before
  script,         \* (environment) the server's responses to the current pagination run
  submitted,      \* (history) the form fields of the submissions of the current pagination run
  fetched,        \* (history) the URLs fetched with http_get in the current round
  round,          \* (history) what the current round has come to
  parser,         \* extract_seller_href_prices: the SellerItemParser being fed
  doc,            \* the document that parser is being fed, as its events
  pos,            \* the number of events of doc looked at so far
  noise,          \* the number of events of doc lost or added on the way so far
  fed,            \* (history) the events the handlers of parser have been called with
  hidden_call,    \* one call of extract_hidden_input_values: arguments and outcome
  ajax_call,      \* one call of parse_ajax_response: argument and outcome
  extract_calls   \* the calls of extract_seller_href_prices made one after the other

\* The program: the interactive round and everything it calls.
roundVars == << entry, pc, url_list, u, per_url_lists, html, values, items, page, text,
                rows_html, new_page, collected, stdout, stderr, rc, script, submitted,
                fetched, round >>

\* One feed of a SellerItemParser, event by event.
feedVars == << parser, doc, pos, noise, fed >>

\* The functions of cmf/parsers.py called on their own.
unitVars == << feedVars, hidden_call, ajax_call, extract_calls >>

vars == << roundVars, unitVars >>

\* No call made: the value of hidden_call and ajax_call in the round.
NoCall == [made |-> FALSE]

\* The parser of the round is not fed event by event (Extract and
\* ExtractInitial call extract_seller_href_prices as a whole).
UnitsIdle ==
  /\ parser = ParserInit
  /\ doc = <<>>
  /\ pos = 0
  /\ noise = 0
  /\ fed = <<>>
  /\ hidden_call = NoCall
  /\ ajax_call = NoCall
  /\ extract_calls = <<>>

collectorLocals == << html, values, items >>
driverLocals    == << page, text, rows_html, new_page, collected >>

NoValues == [n \in {} |-> <<>>]
NoText   == Envelope(None, None)

RoundInit ==
  /\ entry \in {"run_cli", "main"}
  /\ pc = "prompt"
  /\ url_list = <<>>
  /\ u = 0
  /\ per_url_lists = <<>>
  /\ html = <<>>
  /\ values = NoValues
  /\ items = <<>>
  /\ page = <<>>
  /\ text = NoText
  /\ rows_html = <<>>
  /\ new_page = <<>>
  /\ collected = <<>>
  /\ stdout = <<>>
  /\ stderr = None
  /\ rc = -1
  /\ script = <<>>
  /\ submitted = <<>>
  /\ fetched = <<>>
  /\ round = "none"

Init == RoundInit /\ UnitsIdle

\* The frames of collect_seller_items_for_url and paginate_load_more_collect
\* are gone.
DropLocals ==
  /\ html' = <<>>
  /\ values' = NoValues
  /\ items' = <<>>
  /\ page' = <<>>
  /\ text' = NoText
  /\ rows_html' = <<>>
  /\ new_page' = <<>>
  /\ collected' = <<>>

\* The end of a round.  run_cli goes back to the prompt ("continue"); main
\* returns status.
EndRound(status) ==
  IF entry = "run_cli"
  THEN pc' = "prompt" /\ rc' = rc
  ELSE pc' = "exit" /\ rc' = status

\* Mutant of Raise: the exception is swallowed in the pagination loop, which
\* returns what it has collected so far.
RaisePartial(exc) ==
  /\ pc' = "done"
  /\ UNCHANGED << entry, url_list, u, per_url_lists, collectorLocals, driverLocals,
                  stdout, stderr, rc, script, round >>

\* An exception exc leaves collect_seller_items_for_url: the handler of
\* "except Exception as exc" prints it, drops the lists collected so far and
\* leaves the loop over the URLs (run_cli), or returns 1 (main).
Raise(exc) ==
  /\ stderr' = <<"Error processing", url_list[u]>> \o exc
  /\ per_url_lists' = <<>>
  /\ round' = "error"
  /\ EndRound(1)
  /\ DropLocals
  /\ UNCHANGED << entry, url_list, u, stdout, script >>

\* ------------------------------------------------------------------ actions

\* The URL prompt.
ReadUrls ==
  /\ pc = "prompt"
  /\ UNCHANGED unitVars
  /\ \E raw \in RawInputs :
       LET urls == SelectSeq(raw, LAMBDA piece : piece # "")
       IN  IF raw = <<>>
           THEN /\ pc' = "exit"
                /\ rc' = IF entry = "run_cli" THEN 0 ELSE 2
                /\ stderr' = IF entry = "run_cli" THEN stderr
                             ELSE <<"Error: at least one URL is required">>
                /\ UNCHANGED << url_list, u, per_url_lists, stdout, fetched, round,
                                submitted, script >>
           ELSE IF urls = <<>>
           THEN /\ stderr' = <<"Error: no valid URLs provided">>
                /\ round' = "no_urls"
                /\ EndRound(2)
                /\ UNCHANGED << url_list, u, per_url_lists, stdout, fetched,
                                submitted, script >>
           ELSE /\ url_list' = urls
                /\ u' = 1
                /\ per_url_lists' = <<>>
                /\ stdout' = <<>>
                /\ stderr' = None
                /\ fetched' = <<>>
                /\ submitted' = <<>>
                /\ script' = <<>>
                /\ round' = "collecting"
                /\ pc' = "get"
                /\ rc' = rc
  /\ UNCHANGED << entry, collectorLocals, driverLocals >>

\* collect_seller_items_for_url: html = http_get(url, cookie)
HttpGet ==
  /\ pc = "get"
  /\ UNCHANGED unitVars
  /\ fetched' = Append(fetched, url_list[u])
  /\ \E resp \in GetResponses :
       IF resp.raises
       THEN Raise(<<"URLError">>)
       ELSE /\ html' = resp.html
            /\ pc' = "hidden"
            /\ UNCHANGED << entry, url_list, u, per_url_lists, values, items,
                            driverLocals, stdout, stderr, rc, script, round >>
  /\ UNCHANGED submitted

\* collect_seller_items_for_url: values = extract_hidden_input_values(html, ...)
ExtractHidden ==
  /\ pc = "hidden"
  /\ UNCHANGED unitVars
  /\ LET r == extract_hidden_input_values(html, RequiredNames)
     IN  IF r.raises
         THEN Raise(<<"Missing required hidden inputs">> \o Join(r.missing))
         ELSE /\ values' = r.values
              /\ pc' = "initial"
              /\ UNCHANGED << entry, url_list, u, per_url_lists, html, items,
                              driverLocals, stdout, stderr, rc, script, round >>
  /\ UNCHANGED << submitted, fetched >>

\* collect_seller_items_for_url: items = list(extract_seller_href_prices(html))
ExtractInitial ==
  /\ pc = "initial"
  /\ UNCHANGED unitVars
  /\ items' = extract_seller_href_prices(html)
  /\ pc' = "begin"
  /\ UNCHANGED << entry, url_list, u, per_url_lists, html, values, driverLocals,
                  stdout, stderr, rc, script, submitted, fetched, round >>

\* The call of paginate_load_more_collect: collected = [], page = "1".  The
\* server's behaviour for this run is fixed here.
BeginPaginate ==
  /\ pc = "begin"
  /\ UNCHANGED unitVars
  /\ collected' = <<>>
  /\ page' = <<"1">>
  /\ script' \in Scripts
  /\ submitted' = <<>>
  /\ pc' = "request"
  /\ UNCHANGED << entry, url_list, u, per_url_lists, collectorLocals, text,
                  rows_html, new_page, stdout, stderr, rc, fetched, round >>

\* Mutant of Fields: every submission asks for page "1".
FieldsFirstPage(cmtkn, id_product, p) ==
  [__cmtkn |-> cmtkn, idProduct |-> id_product, page |-> <<"1">>,
   filterSettings |-> <<"[]">>]

\* The form fields of one submission.
Fields(cmtkn, id_product, p) ==
  [__cmtkn |-> cmtkn, idProduct |-> id_product, page |-> p, filterSettings |-> <<"[]">>]

\* paginate_load_more_collect: build the fields and post them (Requesting).
Submit ==
  /\ pc = "request"
  /\ UNCHANGED unitVars
  /\ Len(submitted) < MaxPages
  /\ submitted' = Append(submitted,
                         Fields(values[<<"__cmtkn">>], values[<<"idProduct">>], page))
  /\ LET resp == ServerResponse(script, Len(submitted) + 1)
     IN  IF resp.raises
         THEN Raise(<<"URLError">>)
         ELSE /\ text' = resp.text
              /\ pc' = "decode"
              /\ UNCHANGED << entry, url_list, u, per_url_lists, collectorLocals, page,
                              rows_html, new_page, collected, stdout, stderr, rc,
                              script, round >>
  /\ UNCHANGED fetched

\* paginate_load_more_collect: rows_html, new_page = parse_ajax_response(text)
\* (Decoding).
Decode ==
  /\ pc = "decode"
  /\ UNCHANGED unitVars
  /\ LET r == parse_ajax_response(text)
     IN  IF r.raises
         THEN Raise(r.exc)
         ELSE /\ rows_html' = r.rows_html
              /\ new_page' = r.new_page
              /\ pc' = "extract"
              /\ UNCHANGED << entry, url_list, u, per_url_lists, collectorLocals, page,
                              text, collected, stdout, stderr, rc, script, round >>
  /\ UNCHANGED << submitted, fetched >>

\* Mutant of Extend: an item already in the list is not added again.
RECURSIVE ExtendDedup(_, _)
ExtendDedup(lst, more) ==
  IF more = <<>> THEN lst
  ELSE ExtendDedup(IF In(Head(more), lst) THEN lst ELSE Append(lst, Head(more)),
                   Tail(more))

\* list.extend
Extend(lst, more) == lst \o more

\* paginate_load_more_collect:
\* collected.extend(extract_seller_href_prices(rows_html)) (Extracting).
Extract ==
  /\ pc = "extract"
  /\ UNCHANGED unitVars
  /\ collected' = Extend(collected, extract_seller_href_prices(rows_html))
  /\ pc' = "check"
  /\ UNCHANGED << entry, url_list, u, per_url_lists, collectorLocals, page, text,
                  rows_html, new_page, stdout, stderr, rc, script, submitted, fetched,
                  round >>

\* Mutant of LoopEnds: the loop also ends when the cursor does not move.
LoopEndsNoProgress(cursor) == Strip(cursor) = Sentinel \/ Strip(cursor) = page

\* Mutant of LoopEnds: the loop ends after the first page.
LoopEndsFirst(cursor) == TRUE

\* Mutant of LoopEnds: the sentinel is taken to be "1".
LoopEndsOne(cursor) == Strip(cursor) = <<"1">>

\* Whether the loop of paginate_load_more_collect ends after a page whose
\* decoded cursor is cursor.
LoopEnds(cursor) == Strip(cursor) = Sentinel

\* paginate_load_more_collect: break when the cursor is "-1" (Done), else
\* page = new_page.strip() (Continue).
CheckCursor ==
  /\ pc = "check"
  /\ UNCHANGED unitVars
  /\ IF LoopEnds(new_page)
     THEN pc' = "done" /\ page' = page
     ELSE pc' = "request" /\ page' = Strip(new_page)
  /\ UNCHANGED << entry, url_list, u, per_url_lists, collectorLocals, text, rows_html,
                  new_page, collected, stdout, stderr, rc, script, submitted, fetched,
                  round >>

\* Mutant of Composed: the paginated items come first.
ComposedPaginatedFirst(initial, paginated) == Extend(paginated, initial)

\* What collect_seller_items_for_url returns: the items of the product page,
\* then those paginate_load_more_collect returned.
Composed(initial, paginated) == Extend(initial, paginated)

\* paginate_load_more_collect returns collected; collect_seller_items_for_url
\* extends items with it and returns; the caller appends the list and goes to
\* the next URL, or leaves the loop.
Return ==
  /\ pc = "done"
  /\ UNCHANGED unitVars
  /\ per_url_lists' = Append(per_url_lists, Composed(items, collected))
  /\ IF u < Len(url_list)
     THEN u' = u + 1 /\ pc' = "get"
     ELSE u' = u /\ pc' = "aggregate"
  /\ DropLocals
  /\ UNCHANGED << entry, url_list, stdout, stderr, rc, script, submitted, fetched,
                  round >>

\* Mutant of NoCommon: the empty intersection is not told apart; the report
\* loop runs over it.
NoCommonNever(common_hrefs) == FALSE

\* if not common_hrefs
NoCommon(common_hrefs) == common_hrefs = {}

\* The intersection by href and the report of the round.
Aggregate ==
  /\ pc = "aggregate"
  /\ UNCHANGED unitVars
  /\ IF per_url_lists = <<>>
     THEN /\ EndRound(1)
          /\ UNCHANGED << stdout, stderr, round >>
     ELSE IF NoCommon(CommonHrefs(per_url_lists))
     THEN /\ stderr' = <<"Error: no common seller profiles found across provided URLs">>
          /\ round' = "NoCommonItems"
          /\ EndRound(1)
          /\ UNCHANGED stdout
     ELSE /\ stdout' = ReportLines(per_url_lists)
          /\ round' = "reported"
          /\ EndRound(0)
          /\ UNCHANGED stderr
  /\ UNCHANGED << entry, url_list, u, per_url_lists, collectorLocals, driverLocals,
                  script, submitted, fetched >>

Next ==
  \/ ReadUrls
  \/ HttpGet
  \/ ExtractHidden
  \/ ExtractInitial
  \/ BeginPaginate
  \/ Submit
  \/ Decode
  \/ Extract
  \/ CheckCursor
  \/ Return
  \/ Aggregate

Spec == Init /\ [][Next]_vars

\* The program is sequential: inside the loop of paginate_load_more_collect
\* the next statement is always executed (only the prompt waits, for the user).
FairSpec ==
  Spec /\ WF_vars(Submit) /\ WF_vars(Decode) /\ WF_vars(Extract) /\ WF_vars(CheckCursor)

\* -------------------------------------- one SellerItemParser, event by event

\* A fresh parser and the document it is going to be fed; the round is not
\* running.
FeedInit ==
  /\ RoundInit
  /\ entry = "run_cli"
  /\ parser = ParserInit
  /\ doc \in FeedDocs
  /\ pos = 0
  /\ noise = 0
  /\ fed = <<>>
  /\ hidden_call = NoCall
  /\ ajax_call = NoCall
  /\ extract_calls = <<>>

\* The handler of the next event of the document runs.
FeedEvent ==
  /\ pos < Len(doc)
  /\ parser' = HandleEvent(parser, doc[pos + 1])
  /\ fed' = Append(fed, doc[pos + 1])
  /\ pos' = pos + 1
  /\ UNCHANGED << roundVars, doc, noise, hidden_call, ajax_call, extract_calls >>

\* The next event of the document is not in the markup (an element left
\* open, a close that lost its open, text left out).
LoseEvent ==
  /\ pos < Len(doc)
  /\ noise < MaxNoise
  /\ pos' = pos + 1
  /\ noise' = noise + 1
  /\ UNCHANGED << roundVars, parser, doc, fed, hidden_call, ajax_call, extract_calls >>

\* The markup has an event of its own here (a stray close, an open that is
\* never closed, text).
StrayEvent ==
  /\ noise < MaxNoise
  /\ \E e \in StrayEvents :
       /\ parser' = HandleEvent(parser, e)
       /\ fed' = Append(fed, e)
  /\ noise' = noise + 1
  /\ UNCHANGED << roundVars, doc, pos, hidden_call, ajax_call, extract_calls >>

FeedNext == FeedEvent \/ LoseEvent \/ StrayEvent

FeedSpec == FeedInit /\ [][FeedNext]_vars

\* ------------------------------- extract_hidden_input_values on its own

HiddenInit ==
  /\ RoundInit
  /\ entry = "run_cli"
  /\ parser = ParserInit
  /\ doc = <<>>
  /\ pos = 0
  /\ noise = 0
  /\ fed = <<>>
  /\ \E d \in HiddenDocs, r \in RequiredLists :
       hidden_call = [made |-> FALSE, html_text |-> d, required_names |-> r]
  /\ ajax_call = NoCall
  /\ extract_calls = <<>>

\* The call: it raises ValueError with the missing names, or returns values.
CallHidden ==
  /\ ~hidden_call.made
  /\ LET r == extract_hidden_input_values(hidden_call.html_text,
                                          hidden_call.required_names)
     IN  hidden_call' = [ made           |-> TRUE,
                          html_text      |-> hidden_call.html_text,
                          required_names |-> hidden_call.required_names,
                          raises         |-> r.raises,
                          missing        |-> r.missing,
                          values         |-> r.values ]
  /\ UNCHANGED << roundVars, feedVars, ajax_call, extract_calls >>

HiddenSpec == HiddenInit /\ [][CallHidden]_vars

\* --------------------------------------- parse_ajax_response on its own

AjaxInit ==
  /\ RoundInit
  /\ entry = "run_cli"
  /\ parser = ParserInit
  /\ doc = <<>>
  /\ pos = 0
  /\ noise = 0
  /\ fed = <<>>
  /\ hidden_call = NoCall
  /\ \E t \in AjaxTexts : ajax_call = [made |-> FALSE, text |-> t]
  /\ extract_calls = <<>>

\* The call: it raises, or returns rows_html and new_page.
CallParseAjax ==
  /\ ~ajax_call.made
  /\ LET r == ParseAjaxMarkup(ajax_call.text)
     IN  ajax_call' = [ made      |-> TRUE,
                        text      |-> ajax_call.text,
                        raises    |-> r.raises,
                        exc       |-> r.exc,
                        rows_html |-> r.rows_html,
                        new_page  |-> r.new_page ]
  /\ UNCHANGED << roundVars, feedVars, hidden_call, extract_calls >>

AjaxSpec == AjaxInit /\ [][CallParseAjax]_vars

\* ------------------- extract_seller_href_prices, one call after the other

\* A page that ends inside a seller block holding an href and price text.
OpenBlockPage ==
  << StartEv("div", <<ClassAttr(RootClasses)>>) >>
    \o Anchor(Href(<<"y">>)) \o PlainPriceSpan(<<"7.00">>)

\* A page that ends with both legacy marker spans open.
OpenSpansPage ==
  << StartEv("span", <<ClassAttr(OuterClasses)>>),
     StartEv("span", <<ClassAttr(InnerClasses)>>), DataEv(<<"name">>) >>

\* A page with an anchor outside any structure, and the close of a div that
\* the page did not open.
BareAnchorPage == Anchor(Href(<<"w">>)) \o << EndEv("div") >>

\* The pages extract_seller_href_prices is called on: the initial page of
\* collect_seller_items_for_url and the rows of the pages that follow.
CallPages == { OpenBlockPage, OpenSpansPage, BareAnchorPage, RowsA, RowsB, RowsZ }

\* Mutant of FreshParser: the parser of the call before is taken again, its
\* item list emptied.
ReusedParser(last) == [last EXCEPT !.items = <<>>]

\* parser = SellerItemParser(): the parser of a call is a new object; the one
\* the call before left behind is not looked at.
FreshParser(last) == ParserInit

CallsInit ==
  /\ RoundInit
  /\ entry = "run_cli"
  /\ parser = ParserInit
  /\ doc = <<>>
  /\ pos = 0
  /\ noise = 0
  /\ fed = <<>>
  /\ hidden_call = NoCall
  /\ ajax_call = NoCall
  /\ extract_calls = <<>>

\* One call of extract_seller_href_prices: a parser is made, fed the page and
\* left behind as it is at the end of the page; the items are returned.
CallExtract ==
  /\ Len(extract_calls) < MaxCalls
  /\ \E html_text \in CallPages :
       LET p == Feed(FreshParser(parser), html_text)
       IN  /\ parser' = p
           /\ doc' = html_text
           /\ extract_calls' =
                Append(extract_calls,
                       [ html_text  |-> html_text,
                         result     |-> Normalised(p.items),
                         left_stack |-> Len(p.stack),
                         left_block |-> p.in_seller_block_depth > 0 ])
  /\ UNCHANGED << roundVars, pos, noise, fed, hidden_call, ajax_call >>

CallsSpec == CallsInit /\ [][CallExtract]_vars

\* ------------------------------------------------- claims: definitions

\* The statements of paginate_load_more_collect's loop.
PaginationPcs == {"request", "decode", "extract", "check"}

\* A response the driver gets through: the post returns, both elements are in
\* the text and the rows payload decodes.
Succeeds(resp) ==
  /\ ~resp.raises
  /\ resp.text.rows # None
  /\ resp.text.newPage # None
  /\ ~B64Decode(resp.text.rows).raises

\* The trimmed cursor a successful response carries.
CursorOf(resp) == Strip(resp.text.newPage)

\* Successful responses with cursors c1..cn, ck # "-1" for k < n, cn = "-1".
SentinelScript(s) ==
  /\ s # <<>>
  /\ \A k \in 1..Len(s) : Succeeds(s[k])
  /\ \A k \in 1..(Len(s) - 1) : CursorOf(s[k]) # Sentinel
  /\ CursorOf(s[Len(s)]) = Sentinel

\* Successful responses none of which carries "-1".
EndlessScript(s) ==
  /\ s # <<>>
  /\ \A k \in 1..Len(s) : Succeeds(s[k]) /\ CursorOf(s[k]) # Sentinel

\* The items of the rows HTML of one response.
PageItems(resp) == extract_seller_href_prices(B64Decode(resp.text.rows).html)

\* The items of the first n responses of the server, page after page.
RECURSIVE ConcatItems(_, _)
ConcatItems(s, n) ==
  IF n = 0 THEN <<>> ELSE ConcatItems(s, n - 1) \o PageItems(ServerResponse(s, n))

\* The step the program is about to take fails: the post raises, or the
\* response text cannot be decoded.
FailsNow ==
  \/ pc = "request" /\ Len(submitted) < MaxPages
       /\ ServerResponse(script, Len(submitted) + 1).raises
  \/ pc = "decode"
       /\ (text.rows = None \/ text.newPage = None \/ B64Decode(text.rows).raises)

\* ------------------------------------------------------------- claims C1-C10

\* C1: when the server answers with successful responses whose trimmed cursors
\* are c1..cn, only cn being "-1", the run makes exactly n submissions, the
\* first with cursor "1", and none after the response carrying "-1".
C1_RoundTrips ==
  SentinelScript(script) =>
    /\ Len(submitted) <= Len(script)
    /\ (submitted # <<>> => submitted[1].page = <<"1">>)
    /\ (pc \notin PaginationPcs => Len(submitted) = Len(script))

\* C1 witness: cursors "2", "3", "-1" have given exactly three round-trips.
C1_Witness ==
  /\ pc = "done"
  /\ SentinelScript(script)
  /\ [k \in 1..Len(script) |-> CursorOf(script[k])] = << <<"2">>, <<"3">>, Sentinel >>
  /\ [k \in 1..Len(submitted) |-> submitted[k].page] = << <<"1">>, <<"2">>, <<"3">> >>

\* C2: when a pagination run ends normally, what it returns is the
\* concatenation, in submission order, of the items of every submitted page,
\* the last page included, nothing dropped, reordered or deduplicated.
C2_ResultContent ==
  pc = "done" => collected = ConcatItems(script, Len(submitted))

\* C2 witness: a run of three pages has ended and returns the same item twice.
C2_Witness ==
  /\ pc = "done"
  /\ Len(submitted) = 3
  /\ \E i, j \in 1..Len(collected) : i < j /\ collected[i] = collected[j]
  /\ PageItems(script[3]) # <<>>

\* C3: when the post or the decoding of iteration k fails, the round ends in
\* the error outcome, the program leaves the pagination loop without another
\* submission and nothing collected so far reaches the caller or the report.
C3_AbortOnError ==
  [][ FailsNow =>
        /\ round' = "error"
        /\ pc' \in {"prompt", "exit"}
        /\ Len(submitted') <= Len(submitted) + 1
        /\ per_url_lists' = <<>>
        /\ collected' = <<>>
        /\ stdout' = <<>> ]_vars

\* C3 witness: the second iteration has failed after the first had collected
\* items.
C3_Witness ==
  /\ round = "error"
  /\ Len(submitted) = 2
  /\ PageItems(script[1]) # <<>>
  /\ pc \in {"prompt", "exit"}

\* C4: when no response fails and one of them carries "-1", the pagination
\* driver reaches Done.
C4_Terminates ==
  (pc = "request" /\ SentinelScript(script)) ~> (pc = "done")

\* C4 witness: a run whose third response carries "-1" has reached Done.
C4_Witness ==
  pc = "done" /\ SentinelScript(script) /\ Len(script) = 3 /\ Len(submitted) = 3

\* C5: the driver leaves its loop only through Done, which needs a cursor
\* "-1", or through an error; after a page with any other cursor it goes on
\* to the next submission with that cursor, however many pages it has seen and
\* whether or not the cursor moves.
C5_NoIterationCap ==
  [][ /\ (pc = "check" /\ Strip(new_page) # Sentinel =>
            pc' = "request" /\ page' = Strip(new_page))
      /\ (pc' = "done" => pc = "check" /\ Strip(new_page) = Sentinel)
      /\ (pc \in PaginationPcs /\ pc' \notin PaginationPcs \cup {"done"} =>
            round' = "error")
      /\ (EndlessScript(script') => pc' # "done") ]_vars

\* C5 witness: the server has answered every submission with the same cursor
\* "2" and the driver is about to submit again.
C5_Witness ==
  /\ pc = "request"
  /\ Len(submitted) = MaxPages
  /\ EndlessScript(script)
  /\ \A k \in 2..Len(submitted) : submitted[k].page = <<"2">>
  /\ page = <<"2">>

\* C6: what collect_seller_items_for_url hands to its caller is the items of
\* the product page it fetched, followed by the items of the whole pagination
\* run, page after page, nothing dropped.
C6_Composition ==
  [][ pc = "done" /\ pc' # "done" =>
        per_url_lists' =
          Append(per_url_lists,
                 extract_seller_href_prices(html) \o ConcatItems(script, Len(submitted)))
    ]_vars

\* C6 witness: a source has returned the two items of its product page, then
\* paginated items, one of which repeats an item of the product page.
C6_Witness ==
  /\ pc \in {"get", "aggregate"}
  /\ per_url_lists # <<>>
  /\ LET lst == per_url_lists[Len(per_url_lists)]
         n   == Len(extract_seller_href_prices(PageFull))
     IN  /\ n > 0
         /\ Len(lst) > n
         /\ SubSeq(lst, 1, n) = extract_seller_href_prices(PageFull)
         /\ SubSeq(lst, 1, n) # SubSeq(lst, n + 1, Len(lst))
         /\ \E i \in 1..n, j \in (n + 1)..Len(lst) : lst[i] = lst[j]

\* The hrefs printed in the round's report.
ReportedHrefs == {stdout[i][1] : i \in 1..Len(stdout)}

\* The hrefs of the items of source k.
SourceHrefs(k) == {per_url_lists[k][j][1] : j \in 1..Len(per_url_lists[k])}

\* The hrefs that every source of the round has an item for.
InAllSources ==
  {h \in UNION {SourceHrefs(k) : k \in 1..Len(per_url_lists)} :
     \A k \in 1..Len(per_url_lists) : h \in SourceHrefs(k)}

\* C7: when a round has been aggregated, the hrefs reported are exactly those
\* every source has an item for, each reported once; with one source they are
\* that source's hrefs.
C7_IdentitySet ==
  round \in {"reported", "NoCommonItems"} =>
    /\ Len(per_url_lists) >= 1
    /\ ReportedHrefs = InAllSources
    /\ Cardinality(ReportedHrefs) = Len(stdout)
    /\ (Len(per_url_lists) = 1 => ReportedHrefs = SourceHrefs(1))

\* C7 witness: a report over two sources, one of which has an href the other
\* lacks.
C7_Witness ==
  /\ round = "reported"
  /\ Len(per_url_lists) = 2
  /\ ReportedHrefs # {}
  /\ \E h \in SourceHrefs(1) : h \notin SourceHrefs(2)

\* All items of the round, source after source.
RECURSIVE Flatten(_)
Flatten(lists) == IF lists = <<>> THEN <<>> ELSE Head(lists) \o Flatten(Tail(lists))

\* The prices of the round's items with href h that have a price, in the
\* order of Flatten.
PricedWith(h) ==
  LET sel == SelectSeq(Flatten(per_url_lists),
                       LAMBDA it : it[1] = h /\ it[2] # None /\ it[2] # <<>>)
  IN  [i \in 1..Len(sel) |-> sel[i][2]]

\* C8: the price list of every reported href is the prices of the items with
\* that href that have a price, source after source in input order and in
\* each source's item order, repeated prices kept.
C8_PriceCollation ==
  round = "reported" =>
    \A i \in 1..Len(stdout) : stdout[i][2] = PricedWith(stdout[i][1])

\* C8 witness: a report over two different sources in which one href has the
\* same price twice and another href, whose items have no price, has none.
C8_Witness ==
  /\ round = "reported"
  /\ Len(per_url_lists) = 2
  /\ per_url_lists[1] # per_url_lists[2]
  /\ \E i \in 1..Len(stdout) :
       \E a, b \in 1..Len(stdout[i][2]) : a < b /\ stdout[i][2][a] = stdout[i][2][b]
  /\ \E i \in 1..Len(stdout) : stdout[i][2] = <<>>

NoCommonMessage == <<"Error: no common seller profiles found across provided URLs">>

\* C9: a round over sources with no href in common ends as NoCommonItems:
\* nothing is printed to the report, the message printed is its own, not that
\* of a failed round ("Error processing ..."), and a round that reports has
\* at least one line.
C9_NoCommonItems ==
  /\ round \in {"reported", "NoCommonItems"} =>
       (InAllSources = {} <=> round = "NoCommonItems")
  /\ round = "NoCommonItems" =>
       /\ stdout = <<>>
       /\ stderr = NoCommonMessage
       /\ (entry = "main" => pc = "exit" /\ rc = 1)
  /\ round = "reported" => stdout # <<>> /\ stderr = None
  /\ round = "error" => stderr # NoCommonMessage /\ Head(stderr) = "Error processing"

\* C9 witness: two sources, each with items, no href in common.
C9_Witness ==
  /\ round = "NoCommonItems"
  /\ Len(per_url_lists) = 2
  /\ per_url_lists[1] # <<>>
  /\ per_url_lists[2] # <<>>

\* The URLs fetched so far in the round are the first URLs of the round, each
\* fetched once, in input order.
FetchedInOrder ==
  /\ Len(fetched) <= Len(url_list)
  /\ \A i \in 1..Len(fetched) : fetched[i] = url_list[i]

\* C10, sequencing and abort: a source is fetched only when the lists of all
\* sources before it have been returned, a list is returned only by a
\* pagination run that has ended, and when source u fails the sources after
\* it are not fetched, nothing is reported, no list is kept and nothing more
\* is fetched or submitted for that round.
C10_SequentialAbort ==
  /\ [](/\ FetchedInOrder
        /\ (round = "collecting" =>
              /\ Len(fetched) = (IF pc = "get" THEN u - 1 ELSE u)
              /\ Len(per_url_lists) = (IF pc = "aggregate" THEN u ELSE u - 1))
        /\ (round = "error" =>
              /\ Len(fetched) = u
              /\ per_url_lists = <<>>
              /\ stdout = <<>>))
  /\ [][ /\ (fetched' # fetched =>
               \/ pc = "prompt" /\ fetched' = <<>>
               \/ /\ pc = "get"
                  /\ Len(per_url_lists) = Len(fetched)
                  /\ fetched' = Append(fetched, url_list[Len(fetched) + 1]))
         /\ (Len(per_url_lists') > Len(per_url_lists) => pc = "done")
         /\ (round = "error" /\ pc # "prompt" =>
               fetched' = fetched /\ submitted' = submitted)
       ]_vars

\* C10, new round: when a round fails, the program is back at the URL prompt.
C10_NewRound ==
  [][ round # "error" /\ round' = "error" => pc' = "prompt" ]_vars

\* C10: within a round the sources are collected one after another; when one
\* fails the later ones are never fetched, nothing is reported, the round is
\* not retried, and a new round can be started.
C10_RoundSequencing == C10_SequentialAbort /\ C10_NewRound

\* C10 witness of the failing case: the second source of a round has failed
\* after the first had been collected.
C10_Witness ==
  /\ round = "error"
  /\ Len(url_list) = 2
  /\ u = 2
  /\ fetched = url_list

\* ------------------------------------------------------------ claims C11-C20

\* What extract_seller_href_prices returns from the parser as it is now.
FeedResult == Normalised(parser.items)

\* The feed is over and the markup was the document, nothing lost or added.
FedWhole == pos = Len(doc) /\ noise = 0

\* The feed is over and the markup was not the document.
FedBroken == pos = Len(doc) /\ noise > 0

\* An item: a non-empty href and a price, None or a non-empty trimmed str.
IsItem(it) ==
  /\ Len(it) = 2
  /\ it[1] # <<>> /\ it[1] # None
  /\ it[2] = None \/ (it[2] # <<>> /\ Strip(it[2]) = it[2])

\* C11: whatever events it is fed, balanced or not, the parser stays in a
\* state of its own kind (counters not negative, a stack of frames, a list of
\* items), and what extract_seller_href_prices returns is a sequence of items.
C11_NeverFails ==
  /\ parser.in_seller_block_depth \in Nat
  /\ parser.seller_block_nesting \in Nat
  /\ parser.price_span_depth \in Nat
  /\ parser.capture_price_text \in BOOLEAN
  /\ (parser.in_seller_block_depth > 0 => parser.seller_block_nesting > 0)
  /\ (parser.capture_price_text => parser.price_span_depth > 0)
  /\ Len(parser.stack) <= Len(fed)
  /\ \A i \in 1..Len(parser.stack) : Len(parser.stack[i]) = 2
  /\ Len(FeedResult) <= Len(fed)
  /\ \A i \in 1..Len(FeedResult) : IsItem(FeedResult[i])

\* C11 witness: a feed with a close in it that no open came before has ended,
\* and there are items all the same.
C11_Witness ==
  /\ FedBroken
  /\ \E k \in 1..Len(fed) :
       /\ fed[k].type = "end"
       /\ \A j \in 1..(k - 1) : ~(fed[j].type = "start" /\ fed[j].tag = fed[k].tag)
  /\ FeedResult # <<>>

\* The start event opens a qualifying seller-block root.
QualifyingRoot(e) ==
  /\ e.type = "start"
  /\ e.tag = "div"
  /\ \E i \in 1..Len(e.attrs) :
       /\ e.attrs[i][1] = "class"
       /\ \A c \in {"col-sellerProductInfo", "col"} :
            \E j \in 1..Len(e.attrs[i][2]) : e.attrs[i][2][j] = c

\* The classes of the frames of tag span on a stack.
SpanClasses(stack) ==
  { {stack[i][2][j] : j \in 1..Len(stack[i][2])} :
      i \in {k \in 1..Len(stack) : stack[k][1] = "span"} }

\* Both marker spans of the legacy structure are on the stack.
LegacyMarkers(stack) ==
  /\ \E cs \in SpanClasses(stack) : {"seller-name", "d-flex"} \subseteq cs
  /\ \E cs \in SpanClasses(stack) : {"d-flex", "has-content-centered", "me-1"} \subseteq cs

\* The k-th event fed was an anchor under both marker spans.
LegacyAnchorAt(k) ==
  /\ fed[k].type = "start"
  /\ fed[k].tag = "a"
  /\ LegacyMarkers(Feed(ParserInit, SubSeq(fed, 1, k - 1)).stack)

\* C12: when no event fed opened a qualifying seller-block root and no anchor
\* fed was under both marker spans, there is no item.
C12_NoMatchNoItems ==
  (/\ \A k \in 1..Len(fed) : ~QualifyingRoot(fed[k])
   /\ \A k \in 1..Len(fed) : ~LegacyAnchorAt(k))
    => parser.items = <<>> /\ FeedResult = <<>>

\* C12 witness: a whole document with a div of class col alone, an anchor
\* with an href and a price span in it has been fed, and nothing came of it.
C12_Witness ==
  /\ pos = Len(doc)
  /\ \A k \in 1..Len(fed) : ~QualifyingRoot(fed[k]) /\ ~LegacyAnchorAt(k)
  /\ \E k \in 1..Len(fed) : fed[k].type = "start" /\ fed[k].tag = "div"
                              /\ fed[k].attrs = <<ClassAttr(<<"col">>)>>
  /\ \E k \in 1..Len(fed) : fed[k].type = "start" /\ fed[k].tag = "a"
                              /\ fed[k].attrs = Href(<<"x">>)
  /\ \E k \in 1..Len(fed) : fed[k].type = "data" /\ fed[k].data = <<"5.00">>
  /\ FeedResult = <<>>

\* C13: a well-formed block with one anchor and a price span whose text is
\* split over nested inline elements gives one item: the anchor's href and
\* the fragments inside the price span, joined in document order and trimmed;
\* the text before the anchor, in the anchor and after the span is not in it.
C13_PriceAssembly ==
  FedWhole =>
    /\ \A inl \in {"span", "b"}, f1 \in {<<"E">>, <<" ", "E">>},
          f2 \in {<<"12.50">>, <<"12.50", "\n">>} :
         doc = SplitPriceBlock(<<"x">>, inl, f1, f2)
           => FeedResult = << << <<"x">>, Strip(f1 \o f2) >> >>
    /\ doc \in { SplitPriceBlock(<<"x">>, inl, <<"E">>, <<"12.50">>) : inl \in {"span", "b"} }
         => FeedResult = << << <<"x">>, <<"E", "12.50">> >> >>
    /\ doc = PricedBlock(<<"x">>, <<" ", "E">>, <<"12.50", "\n">>)
         => FeedResult = << << <<"x">>, <<"E", "12.50">> >> >>

\* C13 witness: the fragments " E" and "12.50\n" in two nested spans have
\* given the price "E12.50".
C13_Witness ==
  /\ FedWhole
  /\ doc = SplitPriceBlock(<<"x">>, "span", <<" ", "E">>, <<"12.50", "\n">>)
  /\ FeedResult = << << <<"x">>, <<"E", "12.50">> >> >>

\* The step closes the open block.
Finalizes == parser.in_seller_block_depth > 0 /\ parser'.in_seller_block_depth = 0

\* C14: a block with no anchor, or with anchors that carry no href, gives no
\* item; a block with an anchor with an href and no price span, or a price
\* span with only whitespace in it, gives the one item (href, None); and the
\* close of a block, in whatever markup, adds one item when the block has an
\* href and none otherwise.
C14_BlockFinalization ==
  /\ [](FedWhole =>
          \A a \in BlockAnchors, p \in BlockPrices :
            doc = BlockDoc(RootClasses, a, p) =>
              FeedResult =
                IF a # Anchor(Href(<<"y">>)) THEN <<>>
                ELSE << << <<"y">>,
                           IF p = PlainPriceSpan(<<"5.00">>) THEN <<"5.00">> ELSE None >> >>)
  /\ [][ /\ Len(parser'.items) <= Len(parser.items) + 1
         /\ (Finalizes =>
               Len(parser'.items) =
                 Len(parser.items)
                   + (IF parser.current_href \in {None, <<>>} THEN 0 ELSE 1))
         /\ (Finalizes /\ Len(parser'.items) > Len(parser.items) =>
               /\ parser'.items[Len(parser'.items)][1] = parser.current_href
               /\ (Strip(Join(parser.current_price_parts)) = <<>>
                     => parser'.items[Len(parser'.items)][2] = None))
       ]_vars

\* C14 witness: a block with an anchor and a price span holding only
\* whitespace has given (y, None).
C14_Witness ==
  /\ FedWhole
  /\ doc = BlockDoc(RootClasses, Anchor(Href(<<"y">>)), PlainPriceSpan(<<" ", "\n">>))
  /\ FeedResult = << << <<"y">>, None >> >>

\* The step calls handle_starttag for an anchor.
AnchorStep ==
  /\ Len(fed') = Len(fed) + 1
  /\ fed'[Len(fed')].type = "start"
  /\ fed'[Len(fed')].tag = "a"

\* The non-empty hrefs an anchor carries, in attribute order.
HrefsOf(e) ==
  LET hs == SelectSeq(e.attrs, LAMBDA kv : kv[1] = "href" /\ kv[2] # None /\ kv[2] # <<>>)
  IN  [i \in 1..Len(hs) |-> hs[i][2]]

\* C15: an anchor opened while no block is open adds the item (href, None)
\* when it carries a non-empty href and both marker spans are on the stack
\* below it, wherever they are; otherwise it adds nothing.
C15_LegacyMatching ==
  [][ AnchorStep /\ parser.in_seller_block_depth = 0 =>
        LET e == fed'[Len(fed')]
        IN  IF HrefsOf(e) # <<>> /\ LegacyMarkers(parser.stack)
            THEN parser'.items = Append(parser.items, << HrefsOf(e)[1], None >>)
            ELSE parser'.items = parser.items
    ]_vars

\* C15 witness: the marker spans in the other order and with a div between
\* them, and the anchor below has given (z, None).
C15_Witness ==
  /\ FedWhole
  /\ doc = LegacyDoc(InnerClasses, OuterClasses, TRUE, Href(<<"z">>))
  /\ FeedResult = << << <<"z">>, None >> >>

\* C16: an anchor opened while a block is open adds no item, whatever is on
\* the stack; it can only give the block its href.
C16_NoDoubleCount ==
  [][ AnchorStep /\ parser.in_seller_block_depth > 0 =>
        /\ parser'.items = parser.items
        /\ parser'.current_href \in
             {parser.current_href} \cup {HrefsOf(fed'[Len(fed')])[i] :
                                           i \in 1..Len(HrefsOf(fed'[Len(fed')]))}
    ]_vars

\* C16 witness: an anchor with an href has been opened in a block that is
\* under both marker spans; the block has the href and there is no item.
C16_Witness ==
  /\ fed # <<>>
  /\ fed[Len(fed)].type = "start"
  /\ fed[Len(fed)].tag = "a"
  /\ parser.in_seller_block_depth > 0
  /\ LegacyMarkers(parser.stack)
  /\ parser.current_href = <<"x">>
  /\ parser.items = <<>>

\* The tag has an attribute named k.
HasAttr(e, k) == \E i \in 1..Len(e.attrs) : e.attrs[i][1] = k

\* The value of the attribute named k of a tag that has one.
AttrVal(e, k) == e.attrs[CHOOSE i \in 1..Len(e.attrs) : e.attrs[i][1] = k][2]

\* An eligible input: an input with no type attribute, or whose type is
\* hidden in any letter case.
Eligible(e) ==
  /\ e.type = "start"
  /\ e.tag = "input"
  /\ (HasAttr(e, "type") => Lower(AttrVal(e, "type")) = <<"hidden">>)

\* The tag carries the name n, up to letter case.
Carries(e, n) == HasAttr(e, "name") /\ Lower(AttrVal(e, "name")) = Lower(n)

\* The tag carries the name n in this very casing.
CarriesExactly(e, n) == HasAttr(e, "name") /\ AttrVal(e, "name") = n

\* The value an input gives: its value attribute, "" when it has none.
GivenValue(e) == IF HasAttr(e, "value") THEN AttrVal(e, "value") ELSE <<>>

\* The eligible inputs of the document carrying n, in document order.
MatchesOf(n) ==
  SelectSeq(hidden_call.html_text, LAMBDA e : Eligible(e) /\ Carries(e, n))

\* The names asked for in the call.
Requested ==
  {hidden_call.required_names[i] : i \in 1..Len(hidden_call.required_names)}

\* The names the error of the call lists.
NamedMissing == {hidden_call.missing[i] : i \in 1..Len(hidden_call.missing)}

\* C17: for every requested name that eligible inputs carry, the call gives
\* the value of the last of them in document order ("" when that input has no
\* value attribute); inputs with a type other than hidden count for nothing.
C17_LastMatchWins ==
  hidden_call.made =>
    \A n \in Requested :
      MatchesOf(n) # <<>> =>
        /\ n \notin NamedMissing
        /\ (~hidden_call.raises =>
              hidden_call.values[n] = GivenValue(MatchesOf(n)[Len(MatchesOf(n))]))

\* C17, for the documents in which every name is in the casing asked for and
\* no type attribute is empty: the value is that of the last eligible input.
C17_ExactNames ==
  (/\ hidden_call.made
   /\ \A i \in 1..Len(hidden_call.html_text) :
        LET e == hidden_call.html_text[i]
        IN  /\ (HasAttr(e, "name") => AttrVal(e, "name") \in Requested \cup {<<"__cmtkn">>})
            /\ (HasAttr(e, "type") => AttrVal(e, "type") # <<>>))
    => \A n \in Requested :
         MatchesOf(n) # <<>> =>
           /\ n \notin NamedMissing
           /\ (~hidden_call.raises =>
                 hidden_call.values[n] = GivenValue(MatchesOf(n)[Len(MatchesOf(n))]))

\* C18: the call fails exactly when some requested name is carried by no
\* eligible input; the error lists those names and no other; a call that
\* does not fail returns a mapping whose keys are the requested names.
C18_Validation ==
  hidden_call.made =>
    LET absent == {n \in Requested : MatchesOf(n) = <<>>}
    IN  /\ hidden_call.raises <=> absent # {}
        /\ hidden_call.raises => NamedMissing = absent
        /\ ~hidden_call.raises => DOMAIN hidden_call.values = Requested

\* C19: an eligible input whose name is a requested name up to letter case
\* makes that name found, and the mapping returned has it under the casing
\* asked for.
C19_CaseInsensitive ==
  hidden_call.made =>
    \A n \in Requested :
      (\E i \in 1..Len(hidden_call.html_text) :
         LET e == hidden_call.html_text[i]
         IN  Eligible(e) /\ Carries(e, n) /\ ~CarriesExactly(e, n))
        => /\ n \notin NamedMissing
           /\ (~hidden_call.raises => n \in DOMAIN hidden_call.values)

\* C17 and C18 hold on these documents: every name is in the casing asked
\* for and no type attribute is empty.
PlainHiddenDoc ==
  \A i \in 1..Len(hidden_call.html_text) :
    LET e == hidden_call.html_text[i]
    IN  /\ (HasAttr(e, "name") => AttrVal(e, "name") \in Requested \cup {<<"__cmtkn">>})
        /\ (HasAttr(e, "type") => AttrVal(e, "type") # <<>>)

\* C18, for the documents in which every name is in the casing asked for and
\* no type attribute is empty.
C18_ExactNames == PlainHiddenDoc => C18_Validation

\* The name of a tag: what is inside it up to the first whitespace, in lower
\* case.
RECURSIVE UpToSpace(_)
UpToSpace(s) ==
  IF s = <<>> \/ Head(s) \in Whitespace THEN <<>> ELSE <<Head(s)>> \o UpToSpace(Tail(s))

TagName(tok) == Lower(UpToSpace(LStrip(tok.inner)))

\* The text of the call has an element named t: an opening tag of that name
\* and a closing tag of that name after it.
HasElement(t) ==
  \E i, j \in 1..Len(ajax_call.text) :
    /\ i < j
    /\ ajax_call.text[i].kind = "open" /\ TagName(ajax_call.text[i]) = Lower(t)
    /\ ajax_call.text[j].kind = "close" /\ TagName(ajax_call.text[j]) = Lower(t)

\* The opening tags the search for t stops at: those whose inside begins
\* with t, whatever follows, that have a closing tag named t after them.
FoundAt(t) ==
  { i \in 1..Len(ajax_call.text) :
      /\ ajax_call.text[i].kind = "open"
      /\ \E n \in 1..Len(ajax_call.text[i].inner) :
           Lower(SubSeq(ajax_call.text[i].inner, 1, n)) = Lower(t)
      /\ \E j \in (i + 1)..Len(ajax_call.text) :
           ajax_call.text[j].kind = "close" /\ TagName(ajax_call.text[j]) = Lower(t) }

\* The text between the first such opening tag and the first closing tag
\* named t after it.
BodyOf(t) ==
  LET i == CHOOSE k \in FoundAt(t) : \A m \in FoundAt(t) : k <= m
      j == CHOOSE k \in (i + 1)..Len(ajax_call.text) :
             /\ ajax_call.text[k].kind = "close" /\ TagName(ajax_call.text[k]) = Lower(t)
             /\ \A m \in (i + 1)..(k - 1) :
                  ~(ajax_call.text[m].kind = "close" /\ TagName(ajax_call.text[m]) = Lower(t))
  IN  Render(SubSeq(ajax_call.text, i + 1, j - 1))

\* The documents and their base64 encodings.
Encodings ==
  { <<RowsA, <<"b64(RowsA)">> >>, <<RowsB, <<"b64(RowsB)">> >>,
    <<RowsZ, <<"b64(RowsZ)">> >>, << <<>>, <<>> >> }

\* The documents a payload is an encoding of, once the characters that are
\* not base64 are dropped (none when the payload is cut short).
DecodingsOf(payload) ==
  { enc[1] : enc \in { e \in Encodings :
                         e[2] = SelectSeq(payload, LAMBDA c : c \notin {" ", "\n", "!"}) } }

\* The call failed for a missing element.
MissingError == ajax_call.raises /\ Head(ajax_call.exc) = "Missing tags"

\* The element names, in the order the error lists them.
ElementNames == << <<"rows">>, <<"newPage">> >>

\* C20 as claimed: the call fails, with the absent elements named, exactly
\* when the text lacks a rows element or a newPage element; with both in the
\* text it returns the decoded rows and the trimmed newPage body.
C20_Original ==
  ajax_call.made =>
    LET absent == SelectSeq(ElementNames, LAMBDA t : ~HasElement(t))
    IN  /\ ajax_call.raises <=> absent # <<>>
        /\ ajax_call.raises => MissingError /\ Tail(ajax_call.exc) = Join(absent)
        /\ ~ajax_call.raises =>
             /\ ajax_call.new_page = Strip(BodyOf(<<"newPage">>))
             /\ ajax_call.rows_html \in DecodingsOf(BodyOf(<<"rows">>))

\* C20: the call fails for a missing element, naming rows, newPage or both,
\* exactly when the search for that element finds nothing; when both are
\* found and the rows body is a whole base64 encoding it returns the decoded
\* rows and the trimmed newPage body; when the rows body is not one it fails
\* with another error.
C20_EnvelopeDecoding ==
  ajax_call.made =>
    LET absent == SelectSeq(ElementNames, LAMBDA t : FoundAt(t) = {})
    IN  /\ MissingError <=> absent # <<>>
        /\ MissingError => Tail(ajax_call.exc) = Join(absent)
        /\ (absent = <<>> /\ DecodingsOf(BodyOf(<<"rows">>)) # {}) =>
             /\ ~ajax_call.raises
             /\ ajax_call.new_page = Strip(BodyOf(<<"newPage">>))
             /\ ajax_call.rows_html \in DecodingsOf(BodyOf(<<"rows">>))
        /\ (absent = <<>> /\ DecodingsOf(BodyOf(<<"rows">>)) = {}) =>
             ajax_call.raises /\ ~MissingError

\* C20 witness: tags in capitals, an attribute on <ROWS>, characters outside
\* the alphabet in the payload and whitespace around the cursor; the call has
\* returned the rows and "-1".
C20_Witness ==
  /\ ajax_call.made
  /\ ~ajax_call.raises
  /\ \E i \in 1..Len(ajax_call.text) : ajax_call.text[i] = OpenTok(<<"ROWS", " ", "a=1">>)
  /\ \E i \in 1..Len(ajax_call.text) : ajax_call.text[i] = TextTok(<<"!", "b64(RowsA)", "\n">>)
  /\ \E i \in 1..Len(ajax_call.text) : ajax_call.text[i] = TextTok(<<"\n", "-", "1", " ">>)
  /\ ajax_call.rows_html = RowsA
  /\ ajax_call.new_page = Sentinel


\* ------------------------------------------------------------ claims C21-C30

\* The step calls handle_endtag.
EndStep == Len(fed') = Len(fed) + 1 /\ fed'[Len(fed')].type = "end"

\* The step calls handle_starttag.
StartStep == Len(fed') = Len(fed) + 1 /\ fed'[Len(fed')].type = "start"

\* The parser as it was before the last event fed.
ParserBefore == Feed(ParserInit, SubSeq(fed, 1, Len(fed) - 1))

\* C21: on every close event the stack loses the topmost frame of the closed
\* tag and every frame above it, and keeps the frames below; when no frame has
\* the closed tag the stack stays as it is.
C21_StackUnwind ==
  [][ EndStep =>
        LET t == fed'[Len(fed')].tag
            same == {i \in 1..Len(parser.stack) : parser.stack[i][1] = t}
        IN  IF same = {}
            THEN parser'.stack = parser.stack
            ELSE \E i \in same :
                   /\ \A j \in same : j <= i
                   /\ Len(parser'.stack) = i - 1
                   /\ \A j \in 1..(i - 1) : parser'.stack[j] = parser.stack[j]
    ]_vars

\* C21 witness: the last event was a close that took an unclosed frame off
\* the stack together with its own, and left a frame below.
C21_Witness ==
  /\ fed # <<>>
  /\ fed[Len(fed)].type = "end"
  /\ parser.stack # <<>>
  /\ Len(ParserBefore.stack) >= Len(parser.stack) + 2
  /\ ParserBefore.stack[Len(ParserBefore.stack)][1] # fed[Len(fed)].tag

C22_StrayClose ==
  /\ fed # <<>>
  /\ fed[Len(fed)].type = "end"
  /\ ParserBefore.stack = parser.stack
  /\ ParserBefore.seller_block_nesting >= 2
  /\ parser.seller_block_nesting = ParserBefore.seller_block_nesting - 1

\* The index of the frame of the open block's root on a stack: the topmost
\* div frame with both marker classes, 0 when there is none.
RootFrame(stack) ==
  LET idx == {i \in 1..Len(stack) :
                /\ stack[i][1] = "div"
                /\ \A c \in {"col-sellerProductInfo", "col"} :
                     \E j \in 1..Len(stack[i][2]) : stack[i][2][j] = c}
  IN  IF idx = {} THEN 0 ELSE CHOOSE i \in idx : \A j \in idx : j <= i

\* The step is the close event that takes the frame of the open block's root
\* off the stack.
RootCloses ==
  /\ EndStep
  /\ parser.in_seller_block_depth > 0
  /\ RootFrame(parser.stack) > 0
  /\ Len(parser'.stack) < RootFrame(parser.stack)

\* Every close event of the sequence closes the element that was opened last
\* and is still open.
Orderly(events) ==
  \A k \in 1..Len(events) :
    events[k].type = "end" =>
      LET stack == Feed(ParserInit, SubSeq(events, 1, k - 1)).stack
      IN  stack # <<>> /\ stack[Len(stack)][1] = events[k].tag

C23_Earlier ==
  /\ fed # <<>>
  /\ fed[Len(fed)].type = "end"
  /\ ParserBefore.in_seller_block_depth > 0
  /\ parser.in_seller_block_depth = 0
  /\ RootFrame(parser.stack) > 0

\* The frame of a block's root is off the stack and the block is still open
\* (an element in it was left unclosed).
C23_Later ==
  /\ fed # <<>>
  /\ fed[Len(fed)].type = "end"
  /\ RootFrame(ParserBefore.stack) > 0
  /\ parser.stack = <<>>
  /\ parser.in_seller_block_depth > 0
  /\ parser.current_href # None

\* The index in a sequence of events of the open of the block that is open
\* after them: the last open of a qualifying root, 0 when there is none.
BlockStart(events) ==
  LET idx == {k \in 1..Len(events) : QualifyingRoot(events[k])}
  IN  IF idx = {} THEN 0 ELSE CHOOSE k \in idx : \A j \in idx : j <= k

\* The anchors opened since the open of the block, by index.
BlockAnchorsAt(events) ==
  {k \in (BlockStart(events) + 1)..Len(events) :
     events[k].type = "start" /\ events[k].tag = "a"}

\* The least element of a non-empty set of indices.
Least(S) == CHOOSE k \in S : \A j \in S : k <= j

\* The value of the first attribute named href of an anchor that has one.
FirstHref(e) ==
  LET hs == SelectSeq(e.attrs, LAMBDA kv : kv[1] = "href") IN hs[1][2]

\* The step finalizes the open block into an item.
Emits == Finalizes /\ Len(parser'.items) = Len(parser.items) + 1

\* An anchor opened in a block that holds an href leaves the href alone.
HrefKept ==
  AnchorStep /\ parser.in_seller_block_depth > 0
             /\ parser.current_href \notin {None, <<>>}
    => parser'.current_href = parser.current_href

\* C24 as stated: the href of the item a block gives is that of the first
\* anchor opened in the block that has an href attribute, and an href once
\* captured is not changed by a later anchor of the block.
C24_Original ==
  [][ /\ (Emits =>
            LET has == {k \in BlockAnchorsAt(fed) : HasAttr(fed[k], "href")}
            IN  /\ has # {}
                /\ parser'.items[Len(parser'.items)][1] = FirstHref(fed[Least(has)]))
      /\ HrefKept
    ]_vars

\* C24: the href of the item a block gives is that of the first anchor opened
\* in the block that has a non-empty href, and an href once captured is not
\* changed by a later anchor of the block.
C24_HrefFirstWins ==
  [][ /\ (Emits =>
            LET has == {k \in BlockAnchorsAt(fed) : HrefsOf(fed[k]) # <<>>}
            IN  /\ has # {}
                /\ parser'.items[Len(parser'.items)][1] = HrefsOf(fed[Least(has)])[1])
      /\ HrefKept
    ]_vars

\* C24 witness: a block in which two anchors with different hrefs were opened
\* has given an item with the href of the first.
C24_Witness ==
  /\ fed # <<>>
  /\ fed[Len(fed)].type = "end"
  /\ ParserBefore.in_seller_block_depth > 0
  /\ parser.in_seller_block_depth = 0
  /\ LET has == {k \in BlockAnchorsAt(fed) : HrefsOf(fed[k]) # <<>>}
     IN  /\ \E k \in has : HrefsOf(fed[k]) # HrefsOf(fed[Least(has)])
         /\ Len(parser.items) = 1
         /\ parser.items[1][1] = HrefsOf(fed[Least(has)])[1]

\* The start event opens a span with both price classes.
PriceSpanOpen(e) ==
  /\ e.type = "start"
  /\ e.tag = "span"
  /\ \E i \in 1..Len(e.attrs) :
       /\ e.attrs[i][1] = "class"
       /\ \A c \in {"color-primary", "fw-bold"} :
            \E j \in 1..Len(e.attrs[i][2]) : e.attrs[i][2][j] = c

\* Capture stops at the step exactly when the counter comes to 0.
StopsAtZero ==
  parser.capture_price_text =>
    (parser'.capture_price_text <=> parser'.price_span_depth > 0)

\* C25 as stated: while capturing, every open event adds 1 to the price
\* nested-depth counter, every close of a span takes 1 off, and capture stops
\* exactly when the counter comes to 0.
C25_Original ==
  [][ /\ (StartStep /\ parser.capture_price_text =>
            parser'.price_span_depth = parser.price_span_depth + 1)
      /\ (EndStep /\ parser.capture_price_text /\ fed'[Len(fed')].tag = "span" =>
            parser'.price_span_depth = parser.price_span_depth - 1)
      /\ StopsAtZero
    ]_vars

\* C25: while capturing, the open of a span adds 1 to the price nested-depth
\* counter, unless the span has both price classes, which sets it to 1; the
\* open of a root div sets it to 0 and the open of any other element leaves it
\* as it is.  The close of a span takes 1 off when a span frame is on the
\* stack, a close that finalizes the block sets it to 0, and any other close
\* leaves it as it is.  Capture stops exactly when the counter comes to 0.
C25_PriceDepth ==
  [][ /\ (StartStep /\ parser.capture_price_text =>
            LET e == fed'[Len(fed')]
            IN  parser'.price_span_depth =
                  IF QualifyingRoot(e) THEN 0
                  ELSE IF PriceSpanOpen(e) THEN 1
                  ELSE IF e.tag = "span" THEN parser.price_span_depth + 1
                  ELSE parser.price_span_depth)
      /\ (EndStep /\ parser.capture_price_text =>
            parser'.price_span_depth =
              IF Finalizes THEN 0
              ELSE IF /\ fed'[Len(fed')].tag = "span"
                      /\ \E i \in 1..Len(parser.stack) : parser.stack[i][1] = "span"
                   THEN parser.price_span_depth - 1
                   ELSE parser.price_span_depth)
      /\ StopsAtZero
    ]_vars

\* C25 witness: with price text captured already, an element that is not a
\* span has been opened inside the price span, and the counter is still 1.
C25_Witness ==
  /\ fed # <<>>
  /\ fed[Len(fed)].type = "start"
  /\ fed[Len(fed)].tag = "b"
  /\ ParserBefore.capture_price_text
  /\ ParserBefore.current_price_parts # <<>>
  /\ ParserBefore.price_span_depth = 1
  /\ parser.price_span_depth = 1
  /\ parser.capture_price_text

\* A span opened inside the price span has taken the counter to 2, and its
\* close has taken it back to 1 with the capture going on.
C25_NestedSpan ==
  /\ fed # <<>>
  /\ fed[Len(fed)].type = "end"
  /\ fed[Len(fed)].tag = "span"
  /\ ParserBefore.price_span_depth = 2
  /\ parser.price_span_depth = 1
  /\ parser.capture_price_text

\* The step posts a page submission.
SubmitStep == Len(submitted') = Len(submitted) + 1

\* C26: a submission is posted only when every response so far has been
\* decoded and its items appended (the response held is that of the last
\* submission, none is waiting); submission k+1 carries the trimmed cursor of
\* response k as it is, the first carries "1"; and the token, the listing
\* identifier and filterSettings "[]" are the same in every submission of a
\* run.
C26_CursorThreading ==
  /\ [](/\ (pc \in {"decode", "extract", "check"} =>
              /\ submitted # <<>>
              /\ text = ServerResponse(script, Len(submitted)).text)
        /\ \A k \in 1..Len(submitted) :
             /\ submitted[k].__cmtkn = submitted[1].__cmtkn
             /\ submitted[k].idProduct = submitted[1].idProduct
             /\ submitted[k].filterSettings = <<"[]">>)
  /\ [][ SubmitStep =>
           LET k == Len(submitted)
               new == submitted'[k + 1]
               last == ServerResponse(script, k)
           IN  /\ DOMAIN new = {"__cmtkn", "idProduct", "page", "filterSettings"}
               /\ new.__cmtkn = values[<<"__cmtkn">>]
               /\ new.idProduct = values[<<"idProduct">>]
               /\ k = 0 => new.page = <<"1">> /\ collected = <<>>
               /\ k >= 1 =>
                    /\ Succeeds(last)
                    /\ rows_html = B64Decode(last.text.rows).html
                    /\ collected = ConcatItems(script, k)
                    /\ new.page = Strip(last.text.newPage)
     ]_vars

\* C26 witness: the response to the second submission came with the cursor
\* "3 " and items; the third submission carries "3", after the items of both
\* pages were appended.
C26_Witness ==
  /\ Len(submitted) = 3
  /\ script[2].text.newPage = <<"3", " ">>
  /\ submitted[3].page = <<"3">>
  /\ submitted[3].__cmtkn = <<"tok1">>
  /\ PageItems(script[2]) # <<>>
  /\ Len(collected) >= Len(ConcatItems(script, 2))

\* C27: whenever no block is open the block state is the initial one: the
\* depth counter 0, no href, no capture, the price counter 0, no price parts;
\* and a block that follows another gives an item made of what is in it only.
C27_BlockStateReset ==
  /\ (parser.in_seller_block_depth = 0 =>
        /\ parser.seller_block_nesting = 0
        /\ parser.current_href = None
        /\ ~parser.capture_price_text
        /\ parser.price_span_depth = 0
        /\ parser.current_price_parts = <<>>)
  /\ (FedWhole =>
        \A b \in SecondBlocks :
          doc = TwoBlocks(b[1], b[2]) =>
            FeedResult =
              << << <<"x">>, <<"5.00">> >> >>
                \o (IF b[1] = <<>> THEN <<>>
                    ELSE << << <<"y">>, IF b[2] = <<>> THEN None ELSE <<"7.00">> >> >>))

\* C27 witness: after a block with href and price, a block with an href and
\* no price has given an item without price, and the state is the initial one
\* again.
C27_Witness ==
  /\ FedWhole
  /\ doc = TwoBlocks(Anchor(Href(<<"y">>)), <<>>)
  /\ FeedResult = << << <<"x">>, <<"5.00">> >>, << <<"y">>, None >> >>
  /\ parser.in_seller_block_depth = 0
  /\ parser.current_href = None
  /\ parser.current_price_parts = <<>>

\* C28: a step leaves the items there are as they are and in their places,
\* and adds at most one, at the end: at the close that finalizes a block, or
\* at the open of an anchor while no block is open; what is returned has the
\* same items in the same order; and an item equal to one there is already,
\* from the other strategy, is added all the same.
C28_AppendOnly ==
  /\ [][ /\ Len(parser'.items) \in {Len(parser.items), Len(parser.items) + 1}
         /\ SubSeq(parser'.items, 1, Len(parser.items)) = parser.items
         /\ SubSeq(Normalised(parser'.items), 1, Len(parser.items)) = FeedResult
         /\ (Len(parser'.items) = Len(parser.items) + 1 =>
               \/ EndStep /\ Finalizes
               \/ AnchorStep /\ parser.in_seller_block_depth = 0)
       ]_vars
  /\ [](FedWhole =>
          /\ (doc = SameItemTwice =>
                FeedResult = << << <<"z">>, None >>, << <<"z">>, None >> >>)
          /\ (doc = BlockInLegacy =>
                FeedResult = << << <<"x">>, <<"5.00">> >>, << <<"z">>, None >> >>))

\* C28 witness: the block and the legacy anchor of the same href have given
\* the same item twice.
C28_Witness ==
  /\ FedWhole
  /\ doc = SameItemTwice
  /\ Len(FeedResult) = 2
  /\ FeedResult[1] = FeedResult[2]

\* C29: the two counters are never negative; a block is open exactly when
\* seller_block_nesting is 1 or more; the price capture is on exactly when
\* price_span_depth is 1 or more; and the capture is on only in an open block.
C29_CounterInvariants ==
  /\ parser.seller_block_nesting >= 0
  /\ parser.price_span_depth >= 0
  /\ (parser.in_seller_block_depth > 0 <=> parser.seller_block_nesting >= 1)
  /\ (parser.capture_price_text <=> parser.price_span_depth >= 1)
  /\ (parser.capture_price_text => parser.in_seller_block_depth > 0)

\* C29 witness: a span has been opened inside the price span of an open
\* block: the capture is on, the price counter is 2 and the block depth 3.
C29_Witness ==
  /\ parser.in_seller_block_depth > 0
  /\ parser.capture_price_text
  /\ parser.price_span_depth = 2
  /\ parser.seller_block_nesting = 3

\* The items there were when the block that is open now was opened.
ItemsBeforeBlock == Feed(ParserInit, SubSeq(fed, 1, BlockStart(fed) - 1)).items

\* C30: while a block is open there is no item of it, whatever it has
\* captured: if the events end here, what is returned is the items emitted
\* before the block was opened.
C30_UnfinishedBlock ==
  parser.in_seller_block_depth > 0 =>
    /\ BlockStart(fed) > 0
    /\ parser.items = ItemsBeforeBlock
    /\ FeedResult = Normalised(ItemsBeforeBlock)

\* C30 witness: the events have ended in a block that is still open and has
\* an href and price text; the item of the block before it is all there is.
C30_Witness ==
  /\ pos = Len(doc)
  /\ parser.in_seller_block_depth > 0
  /\ parser.current_href = <<"y">>
  /\ parser.current_price_parts = << <<"7.00">> >>
  /\ FeedResult = << << <<"x">>, <<"5.00">> >> >>

\* ------------------------------------------------------------ claims C31-C32

\* What a page gives when it is the only page there is.
PageResult(html_text) ==
  CASE html_text = RowsA -> << << <<"x">>, <<"E", "12.50">> >>, << <<"y">>, None >> >>
    [] html_text = RowsB -> << << <<"x">>, <<"9.00">> >> >>
    [] html_text = RowsZ -> << << <<"z">>, None >> >>
    [] OTHER -> <<>>

\* C31: what a call of extract_seller_href_prices returns depends on the page
\* it is given only: two calls on the same page return the same items,
\* whatever pages were extracted between them and whatever those left open,
\* and every call returns what the page gives on its own.
C31_CallIsolation ==
  /\ \A j, k \in 1..Len(extract_calls) :
       extract_calls[j].html_text = extract_calls[k].html_text
         => extract_calls[j].result = extract_calls[k].result
  /\ \A k \in 1..Len(extract_calls) :
       extract_calls[k].result = PageResult(extract_calls[k].html_text)

\* C31 witness: the page with the legacy anchor was extracted, then a page
\* that ended inside a block holding an href and price text, then the first
\* page again, with the same item as the first time.
C31_Witness ==
  /\ Len(extract_calls) = 3
  /\ extract_calls[1].html_text = RowsZ
  /\ extract_calls[2].html_text = OpenBlockPage
  /\ extract_calls[2].left_block
  /\ extract_calls[2].left_stack > 0
  /\ extract_calls[3].html_text = RowsZ
  /\ extract_calls[3].result = << << <<"z">>, None >> >>
  /\ extract_calls[1].result = extract_calls[3].result

\* The page has an eligible input carrying the name n, up to letter case.
PresentIn(page_html, n) ==
  \E i \in 1..Len(page_html) : Eligible(page_html[i]) /\ Carries(page_html[i], n)

\* The requested names the page has no eligible input for, in request order.
AbsentFrom(page_html) ==
  SelectSeq(RequiredNames, LAMBDA n : ~PresentIn(page_html, n))

\* What the step from the hidden-field extraction does on a page: with a
\* field absent the collection fails naming the absent fields, nothing is
\* submitted and no list reaches the caller, although no item of the page has
\* been extracted yet; with all fields present it goes on.
GateOn(page_html) ==
  IF AbsentFrom(page_html) # <<>>
  THEN /\ round' = "error"
       /\ pc' \in {"prompt", "exit"}
       /\ stderr' = <<"Error processing", url_list[u]>>
                      \o <<"Missing required hidden inputs">> \o Join(AbsentFrom(page_html))
       /\ submitted' = submitted
       /\ items = <<>>
       /\ per_url_lists' = <<>>
  ELSE /\ pc' = "initial"
       /\ DOMAIN values' = {RequiredNames[i] : i \in 1..Len(RequiredNames)}

\* Once the fields are there, the collection goes on to a submission: the
\* initial items are extracted, the pagination run begins and posts.
GoesOnToSubmit ==
  /\ (pc = "initial" => pc' = "begin")
  /\ (pc = "begin" => pc' = "request" /\ submitted' = <<>>)
  /\ (pc = "request" => SubmitStep)

\* C32: when one of __cmtkn, idProduct and isSingle is absent from the page
\* fetched first, the collection fails with the missing-fields error before
\* any submission and returns nothing, whatever seller items the page has;
\* when all three are there (names compared without regard to letter case),
\* a submission is always made.
C32_HiddenGate ==
  [][ (pc = "hidden" => GateOn(html)) /\ GoesOnToSubmit ]_vars

\* The same on the pages whose field names are written as they are requested.
C32_ExactNames ==
  [][ (pc = "hidden" /\ html # PageUpper => GateOn(html)) /\ GoesOnToSubmit ]_vars

\* A page with seller items on it and without isSingle has ended the round
\* in the missing-fields error with nothing submitted.
C32_GateClosed ==
  /\ round = "error"
  /\ Len(url_list) = 1
  /\ submitted = <<>>
  /\ stderr = <<"Error processing", url_list[1], "Missing required hidden inputs", "isSingle">>
  /\ extract_seller_href_prices(PageNoSingle) # <<>>

====
